---- MODULE Spec2Model ----
(***************************************************************************)
(* Speculative-decoding coordinator of the continuous-batching pipeline    *)
(* (SpeculativeDecodingImpl): construction, add_request, step and          *)
(* generate, with the two wrapped pipelines and the generation streams.    *)
(***************************************************************************)
EXTENDS Integers, Sequences, FiniteSets, TLC

(***************************************************************************)
(* Bounds of the model.                                                    *)
(***************************************************************************)
\* largest configured cache_size drawn for the constructor
MaxCache == 4
\* largest hidden size drawn for the main and the draft model
MaxHidden == 3
\* longest encoding of the canary string
MaxEncLen == 2
\* largest batch handed to generate
MaxBatch == 2
\* requests submitted through add_request by the client thread
MaxClientRequests == 2
\* input tensors a caller may pass
NumInputs == 2
\* largest max_new_tokens of a request
MaxNewTokens == 4
\* largest max_new_tokens of a request when three threads share the coordinator
MaxNewTokensShared == 2
\* most steps the scheduler needs for the prompt of a request (chunked prefill)
MaxPromptChunks == 2
\* candidates the draft pipeline proposes per request in one multistep()
NumCandidates == 2
\* tokens a KV-cache block holds
BLOCK_SIZE == 2
\* physical blocks of the KV cache
NumBlocks == 2
\* sequence groups scheduled in one forward pass, running sequences of a
\* group, and the tokens processed before and scheduled in the pass
MaxGroups == 2
MaxRunning == 2
MaxProcessed == 2
MaxScheduled == 2
\* blocks of the allocator's pool, and the tokens a sequence may hold
PoolBlocks == 4
MaxContext == 4
\* the engine loop: its requests, the tokens of a block, the longest prompt
\* and max_new_tokens of its requests
NumEngineRequests == 3
EngineBlockSize == 4
PromptLen == 5
EngineMaxNewTokens == 5
\* handles dropped in one run of the engine loop
MaxDrops == 1
\* sequences of one request that read_all sees, and iterations it reads
MaxSeqs == 3
MaxIterations == 3
\* outputs pushed to a GenerationStream before it is finished
MaxOutputs == 3
\* threads that read from one GenerationStream
NumReaders == 2
\* distinct scores of the outputs of one handle
NumScores == 3
\* distinct cumulative log-probabilities of the outputs read_all reads
NumLogProbs == 2
\* infer requests of a tokenizer pool (128 in the source) and threads that call run
PoolSize == 2
NumCallers == 3
\* prompt length and generated ids of a group that forward is given
MaxPromptLen == 3
MaxGenerated == 2
\* sequences, iterations and tokens of one output that the accumulating read_all reads
MaxAccSeqs == 2
MaxAccIterations == 3
MaxTokensPerOutput == 2

\* token ids a tokenizer may produce, and values of the special token ids
TokenIds == {1, 2}
SpecialIds == {1, 2}

VARIABLES
    desc,                 \* the two ModelDesc arguments of the constructor
    ctor,                 \* the constructor's position and the cache sizes it computed
    mutex,                \* m_draft_generations_mutex: its holder, or Free
    m_draft_generations,  \* keys of the map request id -> draft handle
    draftAwaiting,        \* draft pipeline: m_awaiting_requests
    draftRequests,        \* draft pipeline: m_requests
    draftGen,             \* draft pipeline: generated ids of each request
    mainAwaiting,         \* main pipeline: m_awaiting_requests
    mainRequests,         \* main pipeline: m_requests
    mainSeq,              \* main pipeline: per request, prompt chunks left and generated ids
    streams,              \* GenerationStream of each main request: queue of outputs
    finished,             \* GenerationStream of each main request: generation finished
    max_new_tokens,       \* sampling_params.max_new_tokens of the requests
    pc,                   \* position of each thread
    ar,                   \* add_request: the request id being added and the ids added so far
    st,                   \* step: its local variables
    genIn,                \* generate: its arguments
    g,                    \* generate: its local variables
    streamerLog,          \* calls received by the streamer, in order
    results,              \* generate: the vector it returns
    stepStart,            \* history: requests registered when the running step took the mutex
    sent,                 \* history: what the callers passed and what each pipeline's add_request received
    m_output_queue,       \* one GenerationStream on its own: its queue of outputs
    m_generation_finished,\* one GenerationStream on its own: its finished flag
    producer,             \* the thread that pushes to the stream: its position and its count
    reader,               \* the threads that run read_all on the stream: position and outputs read
    pushed,               \* history: the outputs pushed to the stream, in order
    readLog,              \* history: the outputs read() returned, in the order of the returns
    ra,                   \* GenerationHandle::read_all with beam forks: its locals and its input
    fw,                   \* ModelRunner::forward: its arguments and the tensors it fills
    bm,                   \* the block manager: reference counts and block tables
    eng,                  \* the engine loop: scheduler queues, blocks and streams of its requests
    gres,                 \* generate's result loop: what read_all returned per handle, and the results built
    accum,                \* the accumulating read_all: the outputs it reads and its partial results
    pool                  \* the tokenizer's pool of infer requests: its queue and the callers of run

ctorVars == <<desc, ctor>>
pipeVars == <<mutex, m_draft_generations, draftAwaiting, draftRequests, draftGen,
              mainAwaiting, mainRequests, mainSeq, streams, finished, max_new_tokens>>
threadVars == <<pc, ar, st, genIn, g, streamerLog, results, stepStart, sent>>
runVars == <<pipeVars, threadVars>>
streamVars == <<m_output_queue, m_generation_finished, producer, reader, pushed, readLog>>
libVars == <<streamVars, ra, fw, bm, eng, gres, accum, pool>>
vars == <<ctorVars, pipeVars, threadVars, libVars>>

(***************************************************************************)
(* Construction                                                            *)
(***************************************************************************)
NoTokenizer == [enc |-> <<>>, eos |-> 0, bos |-> 0, pad |-> 0]

\* the encodings of the canary string a tokenizer may give
Encodings == UNION {[1..n -> TokenIds] : n \in 1..MaxEncLen}

Tokenizers == [enc : Encodings, eos : SpecialIds, bos : SpecialIds, pad : SpecialIds]

\* Tokenizer::encode(test_string).input_ids : a tensor of shape [1, len]
encode(tok) == tok.enc

get_shape(tensor) == <<1, Len(tensor)>>

are_tokenizers_equal_nopad(lhs, rhs) ==
    /\ get_shape(encode(lhs)) = get_shape(encode(rhs))
    /\ lhs.eos = rhs.eos
    /\ lhs.bos = rhs.bos

are_tokenizers_equal(lhs, rhs) ==
    /\ get_shape(encode(lhs)) = get_shape(encode(rhs))
    /\ lhs.eos = rhs.eos
    /\ lhs.bos = rhs.bos
    /\ lhs.pad = rhs.pad

\* std::ceil(cache_size * (1.f - k)) with k = draft_hidden / (main_hidden + draft_hidden),
\* computed over the rationals: 1 - k = main_hidden / (main_hidden + draft_hidden)
CeilMainShare(cache_size, main_hidden, draft_hidden) ==
    (cache_size * main_hidden + (main_hidden + draft_hidden) - 1)
        \div (main_hidden + draft_hidden)

NeedsDraftBlock_main_gt1(main_cache_size, draft_cache_size) ==
    draft_cache_size = 0 /\ main_cache_size > 1

\* if (draft_cache_size == 0 && main_cache_size > 0)
NeedsDraftBlock(main_cache_size, draft_cache_size) ==
    draft_cache_size = 0 /\ main_cache_size > 0

TakeFromMain_keep(main_cache_size) == main_cache_size

\* main_cache_size -= (main_cache_size > 1 ? 1 : 0)
TakeFromMain(main_cache_size) ==
    main_cache_size - (IF main_cache_size > 1 THEN 1 ELSE 0)

\* the split of the KV cache between the main and the draft model
SplitCacheSizes(cache_size, main_hidden, draft_hidden) ==
    LET main0 == CeilMainShare(cache_size, main_hidden, draft_hidden)
        draft0 == cache_size - main0
    IN  IF NeedsDraftBlock(main0, draft0)
        THEN [main |-> TakeFromMain(main0), draft |-> 1]
        ELSE [main |-> main0, draft |-> draft0]

\* lines 164-184: the scheduler configs of the two pipelines
CtorSplitCache ==
    /\ ctor.pc = "start"
    /\ LET split == SplitCacheSizes(desc.cache_size, desc.main_hidden, desc.draft_hidden)
       IN  ctor' = IF desc.draft_undefined
                   THEN [ctor EXCEPT !.pc = "tokenizers",
                                     !.main_cache_size = split.main,
                                     !.draft_cache_size = split.draft]
                   ELSE [ctor EXCEPT !.pc = "tokenizers",
                                     !.main_cache_size = desc.cache_size,
                                     !.draft_cache_size = desc.draft_cache_size]
    /\ UNCHANGED desc
    /\ UNCHANGED <<runVars, libVars>>

\* lines 197-203: the tokenizers of the two descriptions are compared
CtorCheckTokenizers ==
    /\ ctor.pc = "tokenizers"
    /\ \E mt \in Tokenizers, dt \in Tokenizers :
        /\ desc' = [desc EXCEPT !.main_tokenizer = mt, !.draft_tokenizer = dt]
        /\ ctor' = [ctor EXCEPT !.pc = IF are_tokenizers_equal(mt, dt)
                                       THEN "pipelines" ELSE "refused"]
    /\ UNCHANGED <<runVars, libVars>>

\* lines 206-211: both pipelines are created
CtorCreatePipelines ==
    /\ ctor.pc = "pipelines"
    /\ ctor' = [ctor EXCEPT !.pc = "done"]
    /\ UNCHANGED desc
    /\ UNCHANGED <<runVars, libVars>>

(***************************************************************************)
(* The two wrapped pipelines                                               *)
(***************************************************************************)
Free == "free"

Threads == {"client", "stepper", "gen"}

\* request ids: generate numbers its inputs from 0, the client picks its own
GenIds == 0..(MaxBatch - 1)
ClientIds == {100 + c : c \in 0..(MaxClientRequests - 1)}
Ids == GenIds \cup ClientIds

Min(a, b) == IF a < b THEN a ELSE b
Max(a, b) == IF a > b THEN a ELSE b

\* ContinuousBatchingImpl::has_non_finished_requests of the main pipeline
has_non_finished_requests == mainAwaiting # {} \/ mainRequests # {}

\* GenerationStream::can_read
can_read(id) == streams[id] # <<>>

back_front(id) == streams[id][1]

\* GenerationStream::back
back(id) == streams[id][Len(streams[id])]

\* every request id known to the draft or to the main pipeline
DraftRegistered == draftAwaiting \cup draftRequests
MainRegistered == mainAwaiting \cup mainRequests

\* the ids gen..gen+k-1 of the tokens a sequence generates next, as one output
NewTokens(gen, k) == [x \in 1..k |-> gen + x]

\* what a pipeline's add_request received for a request, or nothing yet
NoRequest == [added |-> FALSE, request_id |-> 0, input_ids |-> 0,
              sampling_params |-> [ignore_eos |-> FALSE, max_new_tokens |-> 0]]

Request(request_id, input_ids, sampling_params) ==
    [added |-> TRUE, request_id |-> request_id, input_ids |-> input_ids,
     sampling_params |-> sampling_params]

\* the input and the sampling parameters a caller may pass
CallerArgs == [input_ids : 1..NumInputs, ignore_eos : BOOLEAN]

DefaultArgs == {a \in CallerArgs : a.input_ids = 1 /\ ~a.ignore_eos}

\* the caller's sampling_params
SamplingParams(ignore_eos) ==
    [ignore_eos |-> ignore_eos, max_new_tokens |-> max_new_tokens]

DraftSamplingParams_same(sampling_params) == sampling_params

\* auto draft_sampling_params = sampling_params;
\* draft_sampling_params.ignore_eos = true;
DraftSamplingParams(sampling_params) == [sampling_params EXCEPT !.ignore_eos = TRUE]

\* nothing was passed yet by callers who choose their arguments in domain
NoSent(domain) ==
    [domain |-> domain,
     caller |-> [r \in Ids |-> NoRequest],
     draft |-> [r \in Ids |-> NoRequest],
     main |-> [r \in Ids |-> NoRequest],
     draft_eos |-> {}]

(***************************************************************************)
(* SpeculativeDecodingImpl::add_request                                    *)
(***************************************************************************)
\* std::lock_guard<std::mutex> lock(m_draft_generations_mutex);
AddRequestCanLock == mutex = Free

\* line 218: the call arrives with a request id the caller chose
AddRequestCall(t) ==
    /\ pc[t] = "idle"
    /\ t = "client"
    /\ \E id \in ClientIds \ ar.added :
        /\ ar' = [ar EXCEPT !.id = id]
        /\ \E a \in sent.domain :
            sent' = [sent EXCEPT !.caller[id] = Request(id, a.input_ids, SamplingParams(a.ignore_eos))]
        /\ pc' = [pc EXCEPT ![t] = "ar_lock"]
    /\ UNCHANGED <<libVars, ctorVars, pipeVars, st, genIn, g, streamerLog, results, stepStart>>

\* line 219
AddRequestLock(t) ==
    /\ pc[t] = "ar_lock"
    /\ AddRequestCanLock
    /\ mutex' = t
    /\ pc' = [pc EXCEPT ![t] = "ar_draft"]
    /\ UNCHANGED <<libVars, ctorVars, m_draft_generations, draftAwaiting, draftRequests, draftGen,
                   mainAwaiting, mainRequests, mainSeq, streams, finished, max_new_tokens,
                   ar, st, genIn, g, streamerLog, results, stepStart, sent>>

\* lines 220-222
AddRequestDraft(t) ==
    /\ pc[t] = "ar_draft"
    /\ m_draft_generations' = m_draft_generations \cup {ar.id}
    /\ draftAwaiting' = draftAwaiting \cup {ar.id}
    /\ sent' = [sent EXCEPT !.draft[ar.id] =
                    Request(ar.id, sent.caller[ar.id].input_ids,
                            DraftSamplingParams(sent.caller[ar.id].sampling_params))]
    /\ pc' = [pc EXCEPT ![t] = "ar_main"]
    /\ UNCHANGED <<libVars, ctorVars, mutex, draftRequests, draftGen,
                   mainAwaiting, mainRequests, mainSeq, streams, finished, max_new_tokens,
                   ar, st, genIn, g, streamerLog, results, stepStart>>

\* line 223, and the lock_guard's release on return
AddRequestMain(t) ==
    /\ pc[t] = "ar_main"
    /\ mainAwaiting' = mainAwaiting \cup {ar.id}
    /\ \E chunks \in 1..MaxPromptChunks :
        mainSeq' = [mainSeq EXCEPT ![ar.id] = [prompt_left |-> chunks, gen |-> 0, generated_ids |-> <<>>]]
    /\ sent' = [sent EXCEPT !.main[ar.id] =
                    Request(ar.id, sent.caller[ar.id].input_ids,
                            sent.caller[ar.id].sampling_params)]
    /\ mutex' = IF mutex = t THEN Free ELSE mutex
    /\ ar' = [ar EXCEPT !.added = @ \cup {ar.id}]
    /\ pc' = [pc EXCEPT ![t] = "idle"]
    /\ UNCHANGED <<libVars, ctorVars, m_draft_generations, draftAwaiting, draftRequests, draftGen,
                   mainRequests, streams, finished, max_new_tokens,
                   st, genIn, g, streamerLog, results, stepStart>>

(***************************************************************************)
(* SpeculativeDecodingImpl::step                                           *)
(***************************************************************************)
\* what m_sd_metrics holds of a request no step has recorded
NoMetric == [recorded |-> FALSE, acceptance_rate |-> [num |-> 0, den |-> 1],
             draft_accepted_tokens |-> 0]

NoStep == [draft_generated_requests |-> {},
           main_generated_requests |-> {},
           inserted |-> [r \in Ids |-> 0],
           accepted |-> [r \in Ids |-> 0],
           removed |-> [r \in Ids |-> 0],
           metrics |-> [r \in Ids |-> NoMetric],
           trace |-> <<>>]

StepCanLock_nolock == TRUE

\* std::lock_guard<std::mutex> lock{m_draft_generations_mutex};
StepCanLock == mutex = Free

StepNext_skip(p) ==
    CASE p = "s_lock" -> "s_pull_draft"
      [] p = "s_pull_draft" -> "s_pull_main"
      [] p = "s_pull_main" -> "s_draft"
      [] p = "s_draft" -> "s_finish"
      [] p = "s_main" -> "s_finish"

\* lines 257-289: the statements of step() in the order of the code: the lock,
\* the two pull_awaiting_requests, multistep and the loop that hands the
\* candidates over, the main step, the loops that roll back and finish
StepNext(p) ==
    CASE p = "s_lock" -> "s_pull_draft"
      [] p = "s_pull_draft" -> "s_pull_main"
      [] p = "s_pull_main" -> "s_draft"
      [] p = "s_draft" -> "s_main"
      [] p = "s_main" -> "s_finish"

\* a thread calls step()
StepCall(t) ==
    /\ pc[t] = "idle"
    /\ t = "stepper"
    /\ pc' = [pc EXCEPT ![t] = "s_lock"]
    /\ UNCHANGED <<libVars, ctorVars, pipeVars, ar, st, genIn, g, streamerLog, results, stepStart, sent>>

\* line 257
StepLock(t) ==
    /\ pc[t] = "s_lock"
    /\ StepCanLock
    /\ mutex' = t
    /\ st' = NoStep
    /\ stepStart' = DraftRegistered \cup MainRegistered
    /\ pc' = [pc EXCEPT ![t] = StepNext("s_lock")]
    /\ UNCHANGED <<libVars, ctorVars, m_draft_generations, draftAwaiting, draftRequests, draftGen,
                   mainAwaiting, mainRequests, mainSeq, streams, finished, max_new_tokens,
                   ar, genIn, g, streamerLog, results, sent>>

\* line 258: m_draft_pipeline->pull_awaiting_requests(true)
StepPullDraft(t) ==
    /\ pc[t] = "s_pull_draft"
    /\ draftRequests' = draftRequests \cup draftAwaiting
    /\ draftAwaiting' = {}
    /\ pc' = [pc EXCEPT ![t] = StepNext("s_pull_draft")]
    /\ st' = [st EXCEPT !.trace = Append(@, "drain_draft")]
    /\ UNCHANGED <<libVars, ctorVars, mutex, m_draft_generations, draftGen,
                   mainAwaiting, mainRequests, mainSeq, streams, finished, max_new_tokens,
                   ar, genIn, g, streamerLog, results, stepStart, sent>>

\* line 259: m_main_pipeline->pull_awaiting_requests()
StepPullMain(t) ==
    /\ pc[t] = "s_pull_main"
    /\ mainRequests' = mainRequests \cup mainAwaiting
    /\ mainAwaiting' = {}
    /\ pc' = [pc EXCEPT ![t] = StepNext("s_pull_main")]
    /\ st' = [st EXCEPT !.trace = Append(@, "drain_main")]
    /\ UNCHANGED <<libVars, ctorVars, mutex, m_draft_generations, draftAwaiting, draftRequests, draftGen,
                   mainSeq, streams, finished, max_new_tokens,
                   ar, genIn, g, streamerLog, results, stepStart, sent>>

\* the length of the draft's generated ids after multistep(): NumCandidates
\* more, one slot of max_new_tokens left for the token the main model adds
DraftMultistep(r) ==
    IF r \in draftRequests
    THEN Max(Len(draftGen[r]), Min(Len(draftGen[r]) + NumCandidates, max_new_tokens - 1))
    ELSE Len(draftGen[r])

\* what the draft model proposes at each of its NumCandidates positions: the
\* token the main model samples there, or another one
DraftChoices == [1..NumCandidates -> BOOLEAN]

\* the draft's generated ids after multistep(), for the choice pat
DraftCandidates(r, pat) ==
    LET base == Len(draftGen[r])
    IN  draftGen[r] \o [x \in 1..(DraftMultistep(r) - base) |->
                            IF pat[x] THEN NewTokens(base, x)[x] ELSE 0]

\* m_main_pipeline->update_request(id, candidates, false): inserted_tokens_cnt
InsertedTokens(r, draft_gen) ==
    IF r \in mainRequests /\ mainSeq[r].prompt_left = 0
    THEN Max(0, Len(draft_gen) - mainSeq[r].gen)
    ELSE 0

\* the sampler's stopping rule: token == EOS and not ignore_eos
StopsOnEos(request) == ~request.sampling_params.ignore_eos

\* lines 262-276: candidates are generated and handed to the main pipeline;
\* a draft request whose parameters let it stop on EOS may finish in multistep
StepDraft(t) ==
    /\ pc[t] = "s_draft"
    /\ \E pat \in [draftRequests -> DraftChoices],
          stopped \in SUBSET {r \in draftRequests : StopsOnEos(sent.draft[r])} :
        LET draft_gen(r) == IF r \in draftRequests \ stopped
                            THEN DraftCandidates(r, pat[r]) ELSE draftGen[r]
        IN  /\ draftGen' = [r \in Ids |-> draft_gen(r)]
            /\ draftRequests' = draftRequests \ stopped
            /\ sent' = [sent EXCEPT !.draft_eos = @ \cup stopped]
            /\ st' = [st EXCEPT !.draft_generated_requests = draftRequests \ stopped,
                                !.inserted = [r \in Ids |->
                                                IF r \in draftRequests \ stopped
                                                THEN InsertedTokens(r, draft_gen(r))
                                                ELSE 0],
                                !.trace = @ \o <<"multistep", "insert">>]
    /\ pc' = [pc EXCEPT ![t] = StepNext("s_draft")]
    /\ UNCHANGED <<libVars, ctorVars, mutex, m_draft_generations, draftAwaiting,
                   mainAwaiting, mainRequests, mainSeq, streams, finished, max_new_tokens,
                   ar, genIn, g, streamerLog, results, stepStart>>

\* the candidates the main pipeline holds for request r: the draft's ids
\* past the main's own
Candidates(r) ==
    IF st.inserted[r] > 0
    THEN SubSeq(draftGen[r], mainSeq[r].gen + 1, Len(draftGen[r]))
    ELSE <<>>

AcceptedPrefix_all(gen, candidates) == Len(candidates)

\* greedy validation: candidates are accepted while each is the token the
\* main model samples at its position
AcceptedPrefix(gen, candidates) ==
    CHOOSE k \in 0..Len(candidates) :
        /\ \A x \in 1..k : candidates[x] = NewTokens(gen, k)[x]
        /\ k < Len(candidates) => candidates[k + 1] # NewTokens(gen, k + 1)[k + 1]

\* the number of tokens the main step emits for request r when it accepts
\* acc candidates
EmittedTokens(r, acc) ==
    IF mainSeq[r].prompt_left > 1 THEN 0
    ELSE IF mainSeq[r].prompt_left = 1 THEN 1
    ELSE acc + 1

\* the tokens the main step emits for request r: the accepted candidates,
\* then the main model's own token at the first position not validated
SampledTokens(r, acc) ==
    SubSeq(Candidates(r), 1, acc)
        \o NewTokens(mainSeq[r].gen + acc, EmittedTokens(r, acc) - acc)

\* what the main model may sample for one running request as its own token:
\* the end-of-sequence token or not
MainChoices == [eos : BOOLEAN]

\* lines 278-285: one step of the main pipeline, which validates the candidates
StepMain(t) ==
    /\ pc[t] = "s_main"
    /\ \E ch \in [mainRequests -> MainChoices] :
        LET acc(r) == AcceptedPrefix(mainSeq[r].gen, Candidates(r))
            emitted(r) == EmittedTokens(r, acc(r))
            gen_after(r) == mainSeq[r].gen + emitted(r)
            done(r) == emitted(r) > 0 /\ (gen_after(r) >= max_new_tokens \/ ch[r].eos)
        IN  /\ \A r \in mainRequests : ch[r].eos => emitted(r) > 0 /\ StopsOnEos(sent.main[r])
            /\ mainSeq' = [r \in Ids |->
                             IF r \in mainRequests
                             THEN [prompt_left |-> Max(0, mainSeq[r].prompt_left - 1),
                                   gen |-> gen_after(r),
                                   generated_ids |-> mainSeq[r].generated_ids
                                                        \o SampledTokens(r, acc(r))]
                             ELSE mainSeq[r]]
            /\ streams' = [r \in Ids |->
                             IF r \in mainRequests /\ emitted(r) > 0
                             THEN Append(streams[r], SampledTokens(r, acc(r)))
                             ELSE streams[r]]
            /\ finished' = [r \in Ids |-> finished[r] \/ (r \in mainRequests /\ done(r))]
            /\ mainRequests' = {r \in mainRequests : ~done(r)}
            /\ st' = [st EXCEPT !.main_generated_requests = {r \in mainRequests : ~done(r)},
                                !.accepted = [r \in Ids |->
                                                IF r \in mainRequests THEN acc(r) ELSE 0],
                                !.trace = Append(@, "main_step")]
    /\ pc' = [pc EXCEPT ![t] = StepNext("s_main")]
    /\ UNCHANGED <<libVars, ctorVars, mutex, m_draft_generations, draftAwaiting, draftRequests, draftGen,
                   mainAwaiting, max_new_tokens,
                   ar, genIn, g, streamerLog, results, stepStart, sent>>

\* the length of the longest common prefix of two sequences of token ids
CommonPrefix(a, b) ==
    CHOOSE k \in 0..Min(Len(a), Len(b)) :
        /\ \A x \in 1..k : a[x] = b[x]
        /\ k < Min(Len(a), Len(b)) => a[k + 1] # b[k + 1]

RemovedTokens_none(r) == 0

\* m_draft_pipeline->update_request(id, validated, true): removed_tokens_cnt,
\* the draft's ids past the prefix it shares with the main's
RemovedTokens(r) ==
    IF r \in draftRequests
    THEN Len(draftGen[r]) - CommonPrefix(draftGen[r], mainSeq[r].generated_ids)
    ELSE 0

\* the draft's ids after m_draft_pipeline->update_request(id, validated, true):
\* the removed tokens are dropped and the main's ids past the rest are added
UpdatedDraft(r) ==
    LET kept == SubSeq(draftGen[r], 1, Len(draftGen[r]) - RemovedTokens(r))
    IN  kept \o SubSeq(mainSeq[r].generated_ids, Len(kept) + 1, mainSeq[r].gen)

\* removed_tokens_cnt of m_main_pipeline->update_request(id, candidates, false):
\* the candidates extend the main's ids, none of which is removed
MainRemovedTokens(r) == 0

DraftToFinish_none(draft_generated, main_generated) == {}

\* if (!main_generated_requests.count(request_id))
DraftToFinish(draft_generated, main_generated) == draft_generated \ main_generated

\* if (updated_seq_info.inserted_tokens_cnt == 0) continue;
MetricsRecorded(inserted_tokens_cnt) == inserted_tokens_cnt # 0

\* acceptance_rate * 100 with acceptance_rate = 1 - removed / inserted, as
\* the fraction num / den
AcceptanceRate(removed_tokens_cnt, inserted_tokens_cnt) ==
    [num |-> 100 * (inserted_tokens_cnt - removed_tokens_cnt), den |-> inserted_tokens_cnt]

\* inserted_tokens_cnt - removed_tokens_cnt
DraftAcceptedTokens(removed_tokens_cnt, inserted_tokens_cnt) ==
    inserted_tokens_cnt - removed_tokens_cnt

\* lines 286-313: the draft is rolled back, draft requests without a main
\* counterpart are finished, the metrics of the step are recorded, and the
\* lock_guard is released on return
StepFinish(t) ==
    /\ pc[t] = "s_finish"
    /\ LET gone == DraftToFinish(st.draft_generated_requests, st.main_generated_requests)
           removed(r) == IF r \in st.main_generated_requests
                         THEN RemovedTokens(r) ELSE MainRemovedTokens(r)
       IN  /\ st' = [st EXCEPT !.removed = [r \in Ids |-> removed(r)],
                               !.metrics = [r \in Ids |->
                                    IF r \in st.draft_generated_requests
                                       /\ MetricsRecorded(st.inserted[r])
                                    THEN [recorded |-> TRUE,
                                          acceptance_rate |->
                                              AcceptanceRate(removed(r), st.inserted[r]),
                                          draft_accepted_tokens |->
                                              DraftAcceptedTokens(removed(r), st.inserted[r])]
                                    ELSE NoMetric],
                               !.trace = @ \o <<"rollback", "finish">>]
           /\ draftGen' = [r \in Ids |->
                             IF r \in gone THEN <<>>
                             ELSE IF r \in st.main_generated_requests /\ r \in draftRequests
                             THEN UpdatedDraft(r)
                             ELSE draftGen[r]]
           /\ draftRequests' = draftRequests \ gone
           /\ m_draft_generations' = m_draft_generations \ gone
    /\ mutex' = IF mutex = t THEN Free ELSE mutex
    /\ pc' = [pc EXCEPT ![t] = IF t = "gen" THEN "g_after_step" ELSE "idle"]
    /\ UNCHANGED <<libVars, ctorVars, draftAwaiting,
                   mainAwaiting, mainRequests, mainSeq, streams, finished, max_new_tokens,
                   ar, genIn, g, streamerLog, results, stepStart, sent>>

(***************************************************************************)
(* SpeculativeDecodingImpl::generate                                       *)
(***************************************************************************)
Modes == {"greedy", "multinomial", "beam"}

is_greedy_decoding(mode) == mode = "greedy"
is_multinomial(mode) == mode = "multinomial"

\* the arguments of a generate call: n input tensors, m sampling parameter
\* entries, a streamer or none, the decoding mode of sampling_params[0],
\* whether all entries name the same adapters, and the index (from 1) of
\* the first input whose batch dimension is not 1 (0: there is none)
GenerateArgs ==
    {a \in [n : 0..MaxBatch, m : 0..MaxBatch, streamer : BOOLEAN, mode : Modes,
            adapters_equal : BOOLEAN, bad_shape : 0..MaxBatch] :
        /\ a.bad_shape <= a.n
        /\ (a.m < 2 => a.adapters_equal)}

NoGenerate == [i |-> 0, continue_generation |-> TRUE, token |-> <<>>, j |-> 0,
               generation_idx |-> 0, partial |-> <<>>, has_partial |-> FALSE,
               added_main |-> {}, added_draft |-> {}, steps |-> 0,
               was_running |-> FALSE, outcome |-> "running"]

GenRejectsRunning_never(n, m) == n # m

\* lines 319-320: the two assertions generate starts with
GenRejectsRunning(n, m) == has_non_finished_requests \/ n # m

GenAssert(t) ==
    /\ pc[t] = "g_assert"
    /\ IF GenRejectsRunning(genIn.n, genIn.m)
       THEN /\ pc' = [pc EXCEPT ![t] = "rejected"]
            /\ g' = [g EXCEPT !.outcome = "rejected",
                              !.was_running = has_non_finished_requests]
       ELSE /\ pc' = [pc EXCEPT ![t] = "g_adapters"]
            /\ g' = [g EXCEPT !.was_running = has_non_finished_requests]
    /\ UNCHANGED <<libVars, ctorVars, pipeVars, ar, st, genIn, streamerLog, results, stepStart, sent>>

\* lines 325-331: the adapters of all entries are compared and those of
\* sampling_params[0] are set; with no entry, sampling_params[0] reads past
\* the end of an empty vector, which may fault or return
GenAdapters(t) ==
    /\ pc[t] = "g_adapters"
    /\ \/ /\ genIn.m = 0
          /\ \E faults \in BOOLEAN :
                IF faults
                THEN /\ pc' = [pc EXCEPT ![t] = "crashed"]
                     /\ g' = [g EXCEPT !.outcome = "crashed"]
                ELSE /\ pc' = [pc EXCEPT ![t] = "g_streamer"]
                     /\ g' = g
       \/ /\ genIn.m > 0
          /\ ~genIn.adapters_equal
          /\ pc' = [pc EXCEPT ![t] = "rejected"]
          /\ g' = [g EXCEPT !.outcome = "rejected"]
       \/ /\ genIn.m > 0
          /\ genIn.adapters_equal
          /\ pc' = [pc EXCEPT ![t] = "g_streamer"]
          /\ g' = g
    /\ UNCHANGED <<libVars, ctorVars, pipeVars, ar, st, genIn, streamerLog, results, stepStart, sent>>

\* streamer_ptr == nullptr || input_ids.size() == 1 && (greedy || multinomial)
StreamerAllowed(streamer, n, mode) ==
    ~streamer \/ (n = 1 /\ (is_greedy_decoding(mode) \/ is_multinomial(mode)))

\* lines 333-346
GenStreamer(t) ==
    /\ pc[t] = "g_streamer"
    /\ IF StreamerAllowed(genIn.streamer, genIn.n, genIn.mode)
       THEN /\ pc' = [pc EXCEPT ![t] = "g_add_main"]
            /\ g' = g
       ELSE /\ pc' = [pc EXCEPT ![t] = "rejected"]
            /\ g' = [g EXCEPT !.outcome = "rejected"]
    /\ UNCHANGED <<libVars, ctorVars, pipeVars, ar, st, genIn, streamerLog, results, stepStart, sent>>

\* lines 349-352: request_id = g.i is added to the main pipeline
GenAddMain(t) ==
    /\ pc[t] = "g_add_main"
    /\ IF g.i >= genIn.n
       THEN /\ pc' = [pc EXCEPT ![t] = "g_loop"]
            /\ g' = g
            /\ UNCHANGED <<mainAwaiting, mainSeq, sent>>
       ELSE IF genIn.bad_shape = g.i + 1
       THEN /\ pc' = [pc EXCEPT ![t] = "rejected"]
            /\ g' = [g EXCEPT !.outcome = "rejected"]
            /\ UNCHANGED <<mainAwaiting, mainSeq, sent>>
       ELSE /\ mainAwaiting' = mainAwaiting \cup {g.i}
            /\ \E chunks \in 1..MaxPromptChunks :
                mainSeq' = [mainSeq EXCEPT ![g.i] = [prompt_left |-> chunks, gen |-> 0, generated_ids |-> <<>>]]
            /\ \E a \in sent.domain :
                sent' = [sent EXCEPT
                           !.caller[g.i] = Request(g.i, a.input_ids, SamplingParams(a.ignore_eos)),
                           !.main[g.i] = Request(g.i, a.input_ids, SamplingParams(a.ignore_eos))]
            /\ g' = [g EXCEPT !.added_main = @ \cup {g.i}]
            /\ pc' = [pc EXCEPT ![t] = "g_add_draft"]
    /\ UNCHANGED <<libVars, ctorVars, mutex, m_draft_generations, draftAwaiting, draftRequests, draftGen,
                   mainRequests, streams, finished, max_new_tokens,
                   ar, st, genIn, streamerLog, results, stepStart>>

\* lines 354-358, under the lock_guard that lives to the end of the iteration
GenAddDraft(t) ==
    /\ pc[t] = "g_add_draft"
    /\ mutex = Free
    /\ m_draft_generations' = m_draft_generations \cup {g.i}
    /\ draftAwaiting' = draftAwaiting \cup {g.i}
    /\ sent' = [sent EXCEPT !.draft[g.i] =
                    Request(g.i, sent.caller[g.i].input_ids,
                            DraftSamplingParams(sent.caller[g.i].sampling_params))]
    /\ g' = [g EXCEPT !.added_draft = @ \cup {g.i}, !.i = @ + 1]
    /\ pc' = [pc EXCEPT ![t] = "g_add_main"]
    /\ UNCHANGED <<libVars, ctorVars, mutex, draftRequests, draftGen,
                   mainAwaiting, mainRequests, mainSeq, streams, finished, max_new_tokens,
                   ar, st, genIn, streamerLog, results, stepStart>>

\* line 365: while (has_non_finished_requests() && continue_generation) step();
GenLoop(t) ==
    /\ pc[t] = "g_loop"
    /\ IF has_non_finished_requests /\ g.continue_generation
       THEN /\ pc' = [pc EXCEPT ![t] = "s_lock"]
            /\ g' = [g EXCEPT !.steps = @ + 1]
       ELSE /\ pc' = [pc EXCEPT ![t] = "g_end"]
            /\ g' = g
    /\ UNCHANGED <<libVars, ctorVars, pipeVars, ar, st, genIn, streamerLog, results, stepStart, sent>>

\* lines 367-372: after the step, the last output of request 0 is taken
GenAfterStep(t) ==
    /\ pc[t] = "g_after_step"
    /\ IF genIn.streamer /\ can_read(0)
       THEN /\ g' = [g EXCEPT !.token = back(0), !.j = 1]
            /\ pc' = [pc EXCEPT ![t] = "g_put"]
       ELSE /\ g' = g
            /\ pc' = [pc EXCEPT ![t] = "g_loop"]
    /\ UNCHANGED <<libVars, ctorVars, pipeVars, ar, st, genIn, streamerLog, results, stepStart, sent>>

ContinueAfterPut_same(put_returned) == put_returned

\* continue_generation = !streamer_ptr->put(gen_token);
ContinueAfterPut(put_returned) == ~put_returned

\* lines 373-378: one iteration of the loop over the ids of the output
GenPut(t) ==
    /\ pc[t] = "g_put"
    /\ IF g.j > Len(g.token)
       THEN /\ pc' = [pc EXCEPT ![t] = "g_loop"]
            /\ g' = g
            /\ streamerLog' = streamerLog
       ELSE \E put_returned \in BOOLEAN :
            /\ streamerLog' = Append(streamerLog,
                                     [op |-> "put", token |-> g.token[g.j],
                                      returned |-> put_returned])
            /\ g' = [g EXCEPT !.continue_generation = ContinueAfterPut(put_returned),
                              !.j = @ + 1]
            /\ pc' = [pc EXCEPT ![t] = IF ContinueAfterPut(put_returned)
                                       THEN "g_put" ELSE "g_loop"]
    /\ UNCHANGED <<libVars, ctorVars, pipeVars, ar, st, genIn, results, stepStart, sent>>

EndCalled_never(streamer) == FALSE

\* if (streamer_ptr) streamer_ptr->end();
EndCalled(streamer) == streamer

\* lines 381-383
GenEnd(t) ==
    /\ pc[t] = "g_end"
    /\ streamerLog' = IF EndCalled(genIn.streamer)
                      THEN Append(streamerLog, [op |-> "end", token |-> 0, returned |-> FALSE])
                      ELSE streamerLog
    /\ pc' = [pc EXCEPT ![t] = "g_results"]
    /\ UNCHANGED <<libVars, ctorVars, pipeVars, ar, st, genIn, g, results, stepStart, sent>>

\* lines 385-389 and 405-407: the next handle is read, or generate returns
GenResults(t) ==
    /\ pc[t] = "g_results"
    /\ IF g.generation_idx < genIn.n
       THEN /\ pc' = [pc EXCEPT ![t] = "g_read_check"]
            /\ g' = [g EXCEPT !.partial = <<>>, !.has_partial = FALSE]
       ELSE /\ pc' = [pc EXCEPT ![t] = "done"]
            /\ g' = [g EXCEPT !.outcome = "returned"]
    /\ UNCHANGED <<libVars, ctorVars, pipeVars, ar, st, genIn, streamerLog, results, stepStart, sent>>

\* read_all: while (!generation_finished() || can_read())
GenReadCheck(t) ==
    /\ pc[t] = "g_read_check"
    /\ pc' = [pc EXCEPT ![t] = IF ~finished[g.generation_idx] \/ can_read(g.generation_idx)
                               THEN "g_read_pull" ELSE "g_result_push"]
    /\ UNCHANGED <<libVars, ctorVars, pipeVars, ar, st, genIn, g, streamerLog, results, stepStart, sent>>

\* add_partial_result for the one sequence of the request
add_partial_result(has_partial, partial, iteration_result) ==
    IF ~has_partial THEN iteration_result
    ELSE Append(partial, iteration_result[1])

\* read_all: read() waits for an output, which add_partial_result accumulates
GenReadPull(t) ==
    /\ pc[t] = "g_read_pull"
    /\ can_read(g.generation_idx)
    /\ g' = [g EXCEPT !.partial = add_partial_result(g.has_partial, g.partial,
                                                     Head(streams[g.generation_idx])),
                      !.has_partial = TRUE]
    /\ streams' = [streams EXCEPT ![g.generation_idx] = Tail(@)]
    /\ pc' = [pc EXCEPT ![t] = "g_read_check"]
    /\ UNCHANGED <<libVars, ctorVars, mutex, m_draft_generations, draftAwaiting, draftRequests, draftGen,
                   mainAwaiting, mainRequests, mainSeq, finished, max_new_tokens,
                   ar, st, genIn, streamerLog, results, stepStart, sent>>

\* result.m_request_id = 1;
ResultRequestId(generation_idx) == 1

\* lines 387-402: the result of one generation is built and pushed
GenResultPush(t) ==
    /\ pc[t] = "g_result_push"
    /\ results' = Append(results,
                         [m_request_id |-> ResultRequestId(g.generation_idx),
                          m_generation_ids |-> IF g.has_partial THEN <<g.partial>> ELSE <<>>,
                          finished |-> finished[g.generation_idx]])
    /\ g' = [g EXCEPT !.generation_idx = @ + 1]
    /\ pc' = [pc EXCEPT ![t] = "g_results"]
    /\ UNCHANGED <<libVars, ctorVars, pipeVars, ar, st, genIn, streamerLog, stepStart, sent>>

(***************************************************************************)
(* GenerationStream and GenerationHandle::read_all                         *)
(***************************************************************************)
Readers == 1..NumReaders

\* SynchronizedQueue::empty
empty(queue) == queue = <<>>

pull_last(queue) == [value |-> queue[Len(queue)], rest |-> SubSeq(queue, 1, Len(queue) - 1)]

\* SynchronizedQueue::pull, which waits while the queue is empty: the value
\* it returns and what it leaves in the queue
pull(queue) == [value |-> Head(queue), rest |-> Tail(queue)]

\* no stream is in use
NoStream ==
    /\ m_output_queue = <<>>
    /\ m_generation_finished = FALSE
    /\ producer = [pc |-> "off", count |-> 0]
    /\ reader = [r \in Readers |-> [pc |-> "off", read |-> <<>>]]
    /\ pushed = <<>>
    /\ readLog = <<>>


\* GenerationStream::push: the producer pushes its next output
StreamPush ==
    /\ producer.pc = "push"
    /\ producer.count < MaxOutputs
    /\ m_output_queue' = Append(m_output_queue, producer.count + 1)
    /\ pushed' = Append(pushed, producer.count + 1)
    /\ producer' = [producer EXCEPT !.count = @ + 1]
    /\ UNCHANGED <<m_generation_finished, reader, readLog, ctorVars, runVars, ra, fw, bm, eng, gres, accum, pool>>

\* GenerationStream::finish_generation_stream, after the last output
StreamFinish ==
    /\ producer.pc = "push"
    /\ m_generation_finished' = TRUE
    /\ producer' = [producer EXCEPT !.pc = "done"]
    /\ UNCHANGED <<m_output_queue, reader, pushed, readLog, ctorVars, runVars, ra, fw, bm, eng, gres, accum, pool>>

\* read_all: while (!generation_finished() ...
ReadAllFinished(r) ==
    /\ reader[r].pc = "ra_finished"
    /\ reader' = [reader EXCEPT ![r].pc = IF ~m_generation_finished
                                          THEN "ra_read" ELSE "ra_can_read"]
    /\ UNCHANGED <<m_output_queue, m_generation_finished, producer, pushed, readLog,
                   ctorVars, runVars, ra, fw, bm, eng, gres, accum, pool>>

\* read_all: ... || can_read())
ReadAllCanRead(r) ==
    /\ reader[r].pc = "ra_can_read"
    /\ reader' = [reader EXCEPT ![r].pc = IF ~empty(m_output_queue)
                                          THEN "ra_read" ELSE "ra_done"]
    /\ UNCHANGED <<m_output_queue, m_generation_finished, producer, pushed, readLog,
                   ctorVars, runVars, ra, fw, bm, eng, gres, accum, pool>>

\* read_all: iteration_results = read(); the body of the loop follows
ReadAllRead(r) ==
    /\ reader[r].pc = "ra_read"
    /\ ~empty(m_output_queue)
    /\ m_output_queue' = pull(m_output_queue).rest
    /\ readLog' = Append(readLog, pull(m_output_queue).value)
    /\ reader' = [reader EXCEPT ![r].pc = "ra_finished",
                                ![r].read = Append(@, pull(m_output_queue).value)]
    /\ UNCHANGED <<m_generation_finished, producer, pushed, ctorVars, runVars, ra, fw, bm, eng, gres, accum, pool>>

(***************************************************************************)
(* GenerationHandle::read_all, which stitches the outputs of beam forks    *)
(***************************************************************************)
SeqIds == 0..(MaxSeqs - 1)

\* the value of parent_id in the output of a sequence that has no parent
NoParent == 0

\* the token the sequence seq generates in iteration iter
IterToken(iter, seq) == iter * MaxSeqs + seq + 1

\* the number of elements of S that are at most x
Rank(x, S) == Cardinality({y \in S : y <= x})

\* the element of S of rank k
Ranked(k, S) == CHOOSE x \in S : Rank(x, S) = k

\* read_all has not been called
NoReadAll ==
    ra = [pc |-> "off", iter |-> 0, outputs_chunks |-> <<>>,
          intermediate_results |-> [s \in {} |-> <<>>],
          last_iteration_results |-> {}, results |-> [s \in {} |-> <<>>],
          expected |-> [s \in SeqIds |-> <<>>], used |-> {}, zero_parent |-> FALSE,
          shared |-> {}, parent |-> [s \in SeqIds |-> -1],
          orphan |-> FALSE, cumulative_log_prob |-> [s \in {} |-> 0],
          result_log_prob |-> [s \in {} |-> 0],
          first_log_prob |-> [s \in SeqIds |-> 0],
          last_log_prob |-> [s \in SeqIds |-> 0]]

\* if (generation_output.parent_id)
HasParent(parent_id) == parent_id # NoParent

ContinuesOnNewChunk_never(again, forked) == {}

\* lines 91-93: a sequence already in intermediate_results that is in
\* forked_sequences_ids continues on a new chunk
ContinuesOnNewChunk(again, forked) == again \cap forked

\* the chunks that the chunk lists of more than one sequence name
SharedChunks(intermediate_results) ==
    {c \in UNION {{intermediate_results[s][k] : k \in 1..Len(intermediate_results[s])} :
                      s \in DOMAIN intermediate_results} :
        Cardinality({s \in DOMAIN intermediate_results :
                        \E k \in 1..Len(intermediate_results[s]) :
                            intermediate_results[s][k] = c}) > 1}

\* the cumulative log-probabilities an output may carry
LogProbs == 0..(NumLogProbs - 1)

\* lines 58 and 78 set IntermediateResult::cumulative_log_prob from the
\* output that creates the sequence; lines 83-98 do not touch it
StoredLogProb(intermediate_results, stored, iteration_results) ==
    [s \in DOMAIN intermediate_results |->
        IF s \in DOMAIN stored THEN stored[s]
        ELSE iteration_results[s].cumulative_log_prob]

\* lines 49-108: the body of the loop for one iteration's outputs, a function
\* from sequence ids to [token_id, parent_id]; sequences are visited by id
ReadAllBody(iteration_results) ==
    LET ids == DOMAIN iteration_results
        known == DOMAIN ra.intermediate_results
        fresh == ids \ known
        forked == {iteration_results[s].parent_id :
                      s \in {x \in fresh : HasParent(iteration_results[x].parent_id)}}
        again == ids \cap known
        split == ContinuesOnNewChunk(again, forked)
        base == Len(ra.outputs_chunks)
        chunk_of_fresh(s) == base + Rank(s, fresh)
        chunk_of_split(s) == base + Cardinality(fresh) + Rank(s, split)
        last(s) == ra.intermediate_results[s][Len(ra.intermediate_results[s])]
        appended(c) == {s \in again \ split : last(s) = c}
        chunks == [c \in 1..base |->
                      IF appended(c) = {} THEN ra.outputs_chunks[c]
                      ELSE Append(ra.outputs_chunks[c],
                                  iteration_results[Ranked(1, appended(c))].token_id)]
                  \o [k \in 1..Cardinality(fresh) |->
                          <<iteration_results[Ranked(k, fresh)].token_id>>]
                  \o [k \in 1..Cardinality(split) |->
                          <<iteration_results[Ranked(k, split)].token_id>>]
        indexes(s) ==
            IF s \in fresh
            THEN (IF HasParent(iteration_results[s].parent_id)
                  THEN ra.intermediate_results[iteration_results[s].parent_id]
                  ELSE <<>>) \o <<chunk_of_fresh(s)>>
            ELSE IF s \in split
            THEN Append(ra.intermediate_results[s], chunk_of_split(s))
            ELSE ra.intermediate_results[s]
    IN  [outputs_chunks |-> chunks,
         intermediate_results |->
            [s \in (known \ (ra.last_iteration_results \ ids)) \cup fresh |->
                IF s \in ids THEN indexes(s) ELSE ra.intermediate_results[s]],
         last_iteration_results |-> ids]

\* lines 54-63: the first outputs are all taken as roots, one chunk each
ReadAllFirst(iteration_results) ==
    LET ids == DOMAIN iteration_results
    IN  [outputs_chunks |-> ra.outputs_chunks
                              \o [k \in 1..Cardinality(ids) |->
                                    <<iteration_results[Ranked(k, ids)].token_id>>],
         intermediate_results |->
            [s \in DOMAIN ra.intermediate_results \cup ids |->
                IF s \in ids /\ s \notin DOMAIN ra.intermediate_results
                THEN <<Len(ra.outputs_chunks) + Rank(s, ids)>>
                ELSE ra.intermediate_results[s]],
         last_iteration_results |-> ids]

\* the tokens of the chunks that indexes names, in order
RECURSIVE Gather(_, _)
Gather(indexes, chunks) ==
    IF indexes = <<>> THEN <<>>
    ELSE chunks[Head(indexes)] \o Gather(Tail(indexes), chunks)

\* lines 46-109: read() returns the outputs of the next iteration, of
\* sequences that go on and of new ones, each new one forked from a sequence
\* of the iteration before or from none; the body of the loop takes them in
ReadAllIterate ==
    /\ ra.pc = "loop"
    /\ ra.iter < MaxIterations
    /\ \E cont \in SUBSET ra.last_iteration_results, fresh \in SUBSET (SeqIds \ ra.used) :
        /\ cont \cup fresh # {}
        /\ \E par \in [fresh -> ra.last_iteration_results \cup {-1}],
              log_prob \in [cont \cup fresh -> LogProbs] :
            LET token(s) == IterToken(ra.iter + 1, s)
                iteration_results ==
                    [s \in cont \cup fresh |->
                        [token_id |-> token(s),
                         cumulative_log_prob |-> log_prob[s],
                         parent_id |-> IF s \in fresh /\ par[s] # -1
                                       THEN par[s] ELSE NoParent]]
                next == IF ra.last_iteration_results = {}
                        THEN ReadAllFirst(iteration_results)
                        ELSE ReadAllBody(iteration_results)
            IN  ra' = [ra EXCEPT
                        !.iter = @ + 1,
                        !.outputs_chunks = next.outputs_chunks,
                        !.intermediate_results = next.intermediate_results,
                        !.last_iteration_results = next.last_iteration_results,
                        !.expected = [s \in SeqIds |->
                            IF s \in cont THEN Append(ra.expected[s], token(s))
                            ELSE IF s \in fresh
                            THEN (IF par[s] # -1 THEN ra.expected[par[s]] ELSE <<>>)
                                    \o <<token(s)>>
                            ELSE ra.expected[s]],
                        !.used = @ \cup fresh,
                        !.cumulative_log_prob =
                            StoredLogProb(next.intermediate_results, @, iteration_results),
                        !.first_log_prob = [s \in SeqIds |-> IF s \in fresh THEN log_prob[s] ELSE @[s]],
                        !.last_log_prob = [s \in SeqIds |-> IF s \in cont \cup fresh THEN log_prob[s] ELSE @[s]],
                        !.orphan = @ \/ (ra.iter > 0 /\ \E s \in fresh : par[s] = -1),
                        !.parent = [s \in SeqIds |-> IF s \in fresh THEN par[s] ELSE @[s]],
                        !.shared = @ \cup SharedChunks(next.intermediate_results),
                        !.zero_parent = @ \/ (\E s \in fresh : par[s] = NoParent)]
    /\ UNCHANGED <<ctorVars, runVars, streamVars, fw, bm, eng, gres, accum, pool>>

\* lines 111-121: the loop has ended and the chunks of each sequence left
\* are gathered into its result
ReadAllGather ==
    /\ ra.pc = "loop"
    /\ ra' = [ra EXCEPT
                !.pc = "done",
                !.results = [s \in DOMAIN ra.intermediate_results |->
                                Gather(ra.intermediate_results[s], ra.outputs_chunks)],
                !.result_log_prob = [s \in DOMAIN ra.intermediate_results |->
                                        ra.cumulative_log_prob[s]]]
    /\ UNCHANGED <<ctorVars, runVars, streamVars, fw, bm, eng, gres, accum, pool>>

(***************************************************************************)
(* ModelRunner::forward                                                    *)
(***************************************************************************)
\* no forward pass is in use
NoForward == fw = [pc |-> "off"]

\* the blocks a block table needs for the positions of one pass
TableLen == ((MaxProcessed + MaxScheduled - 1) \div BLOCK_SIZE) + 1

\* block tables: the index of each block, kv_blocks[block_id]->get_index()
BlockTables == [1..TableLen -> 0..(NumBlocks - 1)]

\* the scheduled sequence groups: the tokens processed so far, the tokens
\* scheduled, and the block table of each running sequence
SequenceGroups ==
    [num_processed_tokens : 0..MaxProcessed,
     num_scheduled_tokens : 1..MaxScheduled,
     prompt_len : {MaxProcessed + MaxScheduled},
     generated_len : {0},
     kv_blocks : UNION {[1..n -> BlockTables] : n \in 1..MaxRunning}]

\* the tensors forward fills, one row per scheduled token of a sequence
Tensors == {"input_ids", "position_ids", "slot_mapping", "context_lens"}

\* a row of a tensor that nothing was written to
Unwritten == -1

\* sequence_group.get_prompt_ids()[position_id]
prompt_ids(position_id) == position_id

\* sequence.get_generated_ids()[index] of the seq_id-th running sequence
generated_ids(seq_id, index) == 100 + 10 * seq_id + index

InputId_inclusive(group, seq_id, position_id) ==
    IF position_id <= group.prompt_len
    THEN prompt_ids(position_id)
    ELSE generated_ids(seq_id, position_id - group.prompt_len)

\* lines 78-81: the token fed for a position
InputId(group, seq_id, position_id) ==
    IF position_id < group.prompt_len
    THEN prompt_ids(position_id)
    ELSE generated_ids(seq_id, position_id - group.prompt_len)

Stride_one(num_scheduled_tokens) == 1

\* lines 91-94: the pointers are shifted to the rows of the next sequence
Stride(num_scheduled_tokens) == num_scheduled_tokens

\* a store to data[row] of a tensor of batch_size rows: a store past the
\* tensor is recorded, not made
Store(tensor, row, value) ==
    IF row \in 1..Len(tensor) THEN [tensor EXCEPT ![row] = value] ELSE tensor

\* lines 27-33: batch_size, summed over the first n groups
RECURSIVE BatchSize(_, _)
BatchSize(groups, n) ==
    IF n = 0 THEN 0
    ELSE BatchSize(groups, n - 1)
            + groups[n].num_scheduled_tokens * Len(groups[n].kv_blocks)

SlotId_position(kv_blocks, position_id) == position_id

\* lines 84-86: physical_block_id, block_offset and slot_id
SlotId(kv_blocks, position_id) ==
    LET physical_block_id == position_id \div BLOCK_SIZE
        block_offset == position_id % BLOCK_SIZE
    IN  BLOCK_SIZE * kv_blocks[physical_block_id + 1] + block_offset

\* forward is called with the scheduled groups; stores is a history field,
\* the rows each scheduled token was stored to
ForwardCall(groups) ==
    [pc |-> "start", groups |-> groups, i |-> 0, seq_id |-> 0, token_id |-> 0,
     position_id |-> 0, context_len |-> 0, batch_size |-> 0,
     input_ids |-> <<>>, position_ids |-> <<>>, slot_mapping |-> <<>>, context_lens |-> <<>>,
     input_ids_data |-> 0, position_ids_data |-> 0, slot_mapping_data |-> 0,
     context_lens_data |-> 0, stores |-> <<>>]

\* lines 22-55: the aggregated values are computed and the tensors created
ForwardAggregate ==
    /\ fw.pc = "start"
    /\ fw' = [fw EXCEPT !.pc = "group",
                        !.i = 1,
                        !.batch_size = BatchSize(fw.groups, Len(fw.groups)),
                        !.input_ids = [x \in 1..BatchSize(fw.groups, Len(fw.groups)) |-> Unwritten],
                        !.position_ids = [x \in 1..BatchSize(fw.groups, Len(fw.groups)) |-> Unwritten],
                        !.slot_mapping = [x \in 1..BatchSize(fw.groups, Len(fw.groups)) |-> -1],
                        !.context_lens = [x \in 1..BatchSize(fw.groups, Len(fw.groups)) |-> Unwritten],
                        !.input_ids_data = 0,
                        !.position_ids_data = 0,
                        !.slot_mapping_data = 0,
                        !.context_lens_data = 0]
    /\ UNCHANGED <<ctorVars, runVars, streamVars, ra, bm, eng, gres, accum, pool>>

\* lines 57-62: the next scheduled group, or the end of the loop
ForwardGroup ==
    /\ fw.pc = "group"
    /\ fw' = IF fw.i > Len(fw.groups)
             THEN [fw EXCEPT !.pc = "done"]
             ELSE [fw EXCEPT !.pc = "sequence", !.seq_id = 1]
    /\ UNCHANGED <<ctorVars, runVars, streamVars, ra, bm, eng, gres, accum, pool>>

\* lines 64-66: the next running sequence of the group, or the next group
ForwardSequence ==
    /\ fw.pc = "sequence"
    /\ fw' = IF fw.seq_id > Len(fw.groups[fw.i].kv_blocks)
             THEN [fw EXCEPT !.pc = "group", !.i = @ + 1]
             ELSE [fw EXCEPT !.pc = "token",
                             !.token_id = 0,
                             !.position_id = fw.groups[fw.i].num_processed_tokens,
                             !.context_len = fw.groups[fw.i].num_processed_tokens + 1]
    /\ UNCHANGED <<ctorVars, runVars, streamVars, ra, bm, eng, gres, accum, pool>>

\* lines 68-94: one scheduled token of the sequence, or the strides that
\* shift the pointers to the next sequence
ForwardToken ==
    /\ fw.pc = "token"
    /\ fw' = IF fw.token_id < fw.groups[fw.i].num_scheduled_tokens
             THEN [fw EXCEPT
                     !.position_ids = Store(@, fw.position_ids_data + fw.token_id + 1,
                                            fw.position_id),
                     !.context_lens = Store(@, fw.context_lens_data + fw.token_id + 1,
                                            fw.context_len),
                     !.input_ids = Store(@, fw.input_ids_data + fw.token_id + 1,
                                         InputId(fw.groups[fw.i], fw.seq_id, fw.position_id)),
                     !.slot_mapping = Store(@, fw.slot_mapping_data + fw.token_id + 1,
                         SlotId(fw.groups[fw.i].kv_blocks[fw.seq_id], fw.position_id)),
                     !.stores = Append(@, [input_ids |-> fw.input_ids_data + fw.token_id + 1,
                                           position_ids |-> fw.position_ids_data + fw.token_id + 1,
                                           slot_mapping |-> fw.slot_mapping_data + fw.token_id + 1,
                                           context_lens |-> fw.context_lens_data + fw.token_id + 1,
                                           group |-> fw.i, seq_id |-> fw.seq_id,
                                           position_id |-> fw.position_id]),
                     !.token_id = @ + 1,
                     !.position_id = @ + 1,
                     !.context_len = @ + 1]
             ELSE [fw EXCEPT
                     !.input_ids_data = @ + Stride(fw.groups[fw.i].num_scheduled_tokens),
                     !.position_ids_data = @ + Stride(fw.groups[fw.i].num_scheduled_tokens),
                     !.slot_mapping_data = @ + Stride(fw.groups[fw.i].num_scheduled_tokens),
                     !.context_lens_data = @ + Stride(fw.groups[fw.i].num_scheduled_tokens),
                     !.seq_id = @ + 1,
                     !.pc = "sequence"]
    /\ UNCHANGED <<ctorVars, runVars, streamVars, ra, bm, eng, gres, accum, pool>>


\* no block manager is in use
NoBlocks == bm = [pc |-> "off"]

(***************************************************************************)
(* BlockAllocator and BlockManager                                         *)
(***************************************************************************)
Blocks == 0..(PoolBlocks - 1)

\* the blocks a context of n tokens occupies
NumBlocksFor(n) == (n + BLOCK_SIZE - 1) \div BLOCK_SIZE

\* the allocator: the reference count of every block and the free list
NewAllocator ==
    [refcount |-> [b \in Blocks |-> 0],
     free_list |-> [x \in 1..PoolBlocks |-> x - 1]]

num_free(allocator) == Len(allocator.free_list)

can_allocate(allocator, n) == num_free(allocator) >= n

allocate_kept(allocator) ==
    LET b == Head(allocator.free_list)
    IN  [block |-> b,
         allocator |-> [allocator EXCEPT !.refcount[b] = 1]]

\* allocate: a free block is popped and its reference count becomes 1
allocate(allocator) ==
    LET b == Head(allocator.free_list)
    IN  [block |-> b,
         allocator |-> [refcount |-> [allocator.refcount EXCEPT ![b] = 1],
                        free_list |-> Tail(allocator.free_list)]]

\* fork: the reference count of the block is incremented
fork(allocator, b) == [allocator EXCEPT !.refcount[b] = @ + 1]

free_leak(allocator, b) == allocator

free_lost(allocator, b) == [allocator EXCEPT !.refcount[b] = @ - 1]

\* free: the reference count is decremented; at 0 the block is pushed to
\* the free list
free(allocator, b) ==
    [refcount |-> [allocator.refcount EXCEPT ![b] = @ - 1],
     free_list |-> IF allocator.refcount[b] = 1
                   THEN Append(allocator.free_list, b)
                   ELSE allocator.free_list]

\* fork, and free, applied to every block of a table
RECURSIVE fork_all(_, _)
fork_all(allocator, block_table) ==
    IF block_table = <<>> THEN allocator
    ELSE fork_all(fork(allocator, Head(block_table)), Tail(block_table))

RECURSIVE free_all(_, _)
free_all(allocator, block_table) ==
    IF block_table = <<>> THEN allocator
    ELSE free_all(free(allocator, Head(block_table)), Tail(block_table))

\* n blocks allocated one after the other, appended to a block table
RECURSIVE allocate_all(_, _, _)
allocate_all(allocator, block_table, n) ==
    IF n = 0 THEN [allocator |-> allocator, block_table |-> block_table]
    ELSE LET one == allocate(allocator)
         IN  allocate_all(one.allocator, Append(block_table, one.block), n - 1)

LiveSequences == {s \in SeqIds : bm.status[s] = "running"}

\* a waiting sequence is admitted: blocks are allocated for its prompt
Admit(s) ==
    /\ bm.pc = "on"
    /\ bm.status[s] = "waiting"
    /\ \E n \in 1..(MaxContext - 1) :
        /\ can_allocate(bm.allocator, NumBlocksFor(n))
        /\ LET prompt == allocate_all(bm.allocator, <<>>, NumBlocksFor(n))
           IN  bm' = [bm EXCEPT !.allocator = prompt.allocator,
                                !.block_tables[s] = prompt.block_table,
                                !.context_len[s] = n,
                                !.status[s] = "running"]
    /\ UNCHANGED <<ctorVars, runVars, streamVars, ra, fw, eng, gres, accum, pool>>

AppendSlot_no_block(s) ==
    /\ bm.pc = "on"
    /\ bm.status[s] = "running"
    /\ bm.context_len[s] < MaxContext
    /\ bm' = [bm EXCEPT !.context_len[s] = @ + 1]
    /\ UNCHANGED <<ctorVars, runVars, streamVars, ra, fw, eng, gres, accum, pool>>

\* append_slot with ensure_writable: room for one more token; a fresh block
\* when the last block is full, and a copy of the last block when it is
\* shared, whose pointer in the table is replaced
AppendSlot(s) ==
    /\ bm.pc = "on"
    /\ bm.status[s] = "running"
    /\ bm.context_len[s] < MaxContext
    /\ LET block_table == bm.block_tables[s]
           last_block == block_table[Len(block_table)]
           one == allocate(bm.allocator)
       IN  IF bm.context_len[s] = BLOCK_SIZE * Len(block_table)
           THEN /\ can_allocate(bm.allocator, 1)
                /\ bm' = [bm EXCEPT !.allocator = one.allocator,
                                    !.block_tables[s] = Append(@, one.block),
                                    !.context_len[s] = @ + 1]
           ELSE IF bm.allocator.refcount[last_block] > 1
           THEN /\ can_allocate(bm.allocator, 1)
                /\ bm' = [bm EXCEPT !.allocator = free(one.allocator, last_block),
                                    !.block_tables[s][Len(block_table)] = one.block,
                                    !.context_len[s] = @ + 1,
                                    !.copied = TRUE]
           ELSE bm' = [bm EXCEPT !.context_len[s] = @ + 1]
    /\ UNCHANGED <<ctorVars, runVars, streamVars, ra, fw, eng, gres, accum, pool>>

\* fork_sequence: the child's table is a shallow copy of the parent's
ForkSequence(parent, child) ==
    /\ bm.pc = "on"
    /\ bm.status[parent] = "running"
    /\ bm.status[child] = "none"
    /\ bm' = [bm EXCEPT !.allocator = fork_all(@, bm.block_tables[parent]),
                        !.block_tables[child] = bm.block_tables[parent],
                        !.context_len[child] = bm.context_len[parent],
                        !.status[child] = "running"]
    /\ UNCHANGED <<ctorVars, runVars, streamVars, ra, fw, eng, gres, accum, pool>>

\* free_sequence of a finished sequence: every block of its table is freed
FinishSequence(s) ==
    /\ bm.pc = "on"
    /\ bm.status[s] = "running"
    /\ bm' = [bm EXCEPT !.allocator = free_all(@, bm.block_tables[s]),
                        !.block_tables[s] = <<>>,
                        !.context_len[s] = 0,
                        !.status[s] = "finished"]
    /\ UNCHANGED <<ctorVars, runVars, streamVars, ra, fw, eng, gres, accum, pool>>

\* preemption by recompute: all blocks are freed and the sequence waits again
Preempt(s) ==
    /\ bm.pc = "on"
    /\ bm.status[s] = "running"
    /\ bm' = [bm EXCEPT !.allocator = free_all(@, bm.block_tables[s]),
                        !.block_tables[s] = <<>>,
                        !.context_len[s] = 0,
                        !.status[s] = "waiting",
                        !.preempted = TRUE]
    /\ UNCHANGED <<ctorVars, runVars, streamVars, ra, fw, eng, gres, accum, pool>>

\* no engine loop is in use
NoEngine == eng = [pc |-> "off"]

NoResults == gres = [pc |-> "off"]

NoAccumulate == accum = [pc |-> "off"]

NoPool == pool = [pc |-> "off"]

NoLib == NoStream /\ NoReadAll /\ NoForward /\ NoBlocks /\ NoEngine /\ NoResults
         /\ NoAccumulate /\ NoPool

(***************************************************************************)
(* The engine loop: add_request, drop and step, which schedules, preempts, *)
(* admits and samples                                                      *)
(***************************************************************************)
EngineRequests == 1..NumEngineRequests

Unfinished == {"AWAITING", "WAITING", "RUNNING"}

\* the blocks a context of n tokens occupies in the engine
EngineBlocksFor(n) == (n + EngineBlockSize - 1) \div EngineBlockSize

\* the members of a queue
Members(queue) == {queue[x] : x \in 1..Len(queue)}

\* a queue without the requests of a set
Without(queue, gone) == SelectSeq(queue, LAMBDA r : r \notin gone)

\* the blocks of every group of a set are freed
RECURSIVE free_groups(_, _, _)
free_groups(allocator, block_tables, groups) ==
    IF groups = {} THEN allocator
    ELSE LET r == CHOOSE x \in groups : TRUE
         IN  free_groups(free_all(allocator, block_tables[r]), block_tables, groups \ {r})

\* has_non_finished_requests of the engine
EngineHasNonFinished == \E r \in EngineRequests : eng.status[r] \in Unfinished

\* add_request: the group is registered and waits for the next step; the
\* requests are numbered in the order of their arrival
EngineAddRequest(r) ==
    /\ eng.pc \notin {"off", "halted"}
    /\ eng.status[r] = "none"
    /\ \A q \in 1..(r - 1) : eng.status[q] # "none"
    /\ \E n \in (PromptLen - 1)..PromptLen :
        eng' = [eng EXCEPT !.status[r] = "AWAITING",
                           !.prompt_len[r] = n,
                           !.arrival = Append(@, r),
                           !.late = @ \/ eng.stepped]
    /\ UNCHANGED <<ctorVars, runVars, streamVars, ra, fw, bm, gres, accum, pool>>

\* drop of the handle of an unfinished request: a flag is set
EngineDrop(r) ==
    /\ eng.pc \notin {"off", "halted"}
    /\ eng.status[r] \in Unfinished
    /\ ~eng.handle_dropped[r]
    /\ Cardinality({q \in EngineRequests : eng.handle_dropped[q]}) < MaxDrops
    /\ eng' = [eng EXCEPT !.handle_dropped[r] = TRUE,
                          !.generated_at_drop[r] = eng.generated[r],
                          !.dropped_in_step[r] = eng.pc # "idle"]
    /\ UNCHANGED <<ctorVars, runVars, streamVars, ra, fw, bm, gres, accum, pool>>

Cancelled_never(r) == FALSE

\* the groups the step removes from scheduling: dropped and not finished
Cancelled(r) == eng.handle_dropped[r] /\ eng.status[r] \in Unfinished

\* step() begins: the groups whose handle was dropped are finalised (their
\* blocks are freed, their status is DROPPED and their stream is closed) and
\* the requests added since the last step enter the waiting queue
EngineStepStart ==
    /\ eng.pc = "idle"
    /\ EngineHasNonFinished
    /\ LET gone == {r \in EngineRequests : Cancelled(r)}
       IN  eng' = [eng EXCEPT
                     !.pc = "continue",
                     !.stepped = TRUE,
                     !.steps_after_drop = [r \in EngineRequests |->
                                    IF eng.handle_dropped[r] /\ @[r] < 2 THEN @[r] + 1 ELSE @[r]],
                     !.allocator = free_groups(@, eng.block_tables, gone),
                     !.block_tables = [r \in EngineRequests |-> IF r \in gone THEN <<>> ELSE @[r]],
                     !.context_len = [r \in EngineRequests |-> IF r \in gone THEN 0 ELSE @[r]],
                     !.status = [r \in EngineRequests |->
                                    IF r \in gone THEN "DROPPED"
                                    ELSE IF @[r] = "AWAITING" THEN "WAITING" ELSE @[r]],
                     !.stream_closed = [r \in EngineRequests |-> @[r] \/ r \in gone],
                     !.running = Without(@, gone)]
    /\ UNCHANGED <<ctorVars, runVars, streamVars, ra, fw, bm, gres, accum, pool>>

PreemptTail_keep(e) ==
    LET victim == e.running[Len(e.running)]
    IN  [e EXCEPT !.status[victim] = "WAITING",
                  !.running = SubSeq(@, 1, Len(@) - 1),
                  !.preempted = @ \cup {victim}]

\* preemption by recompute of the tail of the running queue: its blocks are
\* freed and it waits again with num_processed_tokens = 0
PreemptTail(e) ==
    LET victim == e.running[Len(e.running)]
    IN  [e EXCEPT !.allocator = free_all(@, e.block_tables[victim]),
                  !.block_tables[victim] = <<>>,
                  !.context_len[victim] = 0,
                  !.status[victim] = "WAITING",
                  !.running = SubSeq(@, 1, Len(@) - 1),
                  !.preempted = @ \cup {victim}]

\* the allocator cannot satisfy the slot: preemption mode
NeedsPreemption(allocator) == ~can_allocate(allocator, 1)

\* one slot is reserved for each running group from the head of the running
\* queue on; when the allocator cannot supply a block, victims are taken
\* from the tail until the group fits
RECURSIVE Reserve(_, _)
Reserve(e, k) ==
    IF k > Len(e.running) THEN e
    ELSE LET r == e.running[k]
             one == allocate(e.allocator)
         IN  IF e.context_len[r] < EngineBlockSize * Len(e.block_tables[r])
             THEN Reserve([e EXCEPT !.context_len[r] = @ + 1], k + 1)
             ELSE IF ~NeedsPreemption(e.allocator)
             THEN Reserve([e EXCEPT !.allocator = one.allocator,
                                    !.block_tables[r] = Append(@, one.block),
                                    !.context_len[r] = @ + 1], k + 1)
             ELSE IF Len(e.running) = 1
             THEN [e EXCEPT !.pc = "halted"]
             ELSE Reserve(PreemptTail(e), k)

\* the running groups continue, with preemption when the cache is exhausted
EngineContinue ==
    /\ eng.pc = "continue"
    /\ LET e == Reserve([eng EXCEPT !.scheduled = Members(eng.running)], 1)
       IN  eng' = IF e.pc = "halted" THEN e
                  ELSE [e EXCEPT !.pc = "admit",
                                 !.scheduled = @ \cap Members(e.running)]
    /\ UNCHANGED <<ctorVars, runVars, streamVars, ra, fw, bm, gres, accum, pool>>

\* the waiting groups in the order of their arrival
WaitingQueue(e) == SelectSeq(e.arrival, LAMBDA r : e.status[r] = "WAITING")

\* waiting groups are admitted in the order of their arrival while the
\* allocator can supply the blocks of their prompt and generated tokens
RECURSIVE AdmitWaiting(_)
AdmitWaiting(e) ==
    IF WaitingQueue(e) = <<>> THEN e
    ELSE LET r == Head(WaitingQueue(e))
             tokens == e.prompt_len[r] + e.generated[r]
             prompt == allocate_all(e.allocator, <<>>, EngineBlocksFor(tokens))
         IN  IF ~can_allocate(e.allocator, EngineBlocksFor(tokens)) THEN e
             ELSE AdmitWaiting([e EXCEPT !.allocator = prompt.allocator,
                                         !.block_tables[r] = prompt.block_table,
                                         !.context_len[r] = tokens,
                                         !.status[r] = "RUNNING",
                                         !.running = Append(@, r)])

EngineAdmit ==
    /\ eng.pc = "admit"
    /\ eng' = [AdmitWaiting(eng) EXCEPT !.pc = "sample"]
    /\ UNCHANGED <<ctorVars, runVars, streamVars, ra, fw, bm, gres, accum, pool>>

\* the forward pass and the sampler: a decoding group emits one token, a
\* group that is prefilled emits none; a group at max_new_tokens finishes,
\* its blocks are freed and its stream is closed
EngineSample ==
    /\ eng.pc = "sample"
    /\ LET generated(r) == IF r \in eng.scheduled THEN eng.generated[r] + 1
                           ELSE eng.generated[r]
           done == {r \in eng.scheduled : generated(r) >= EngineMaxNewTokens}
       IN  eng' = [eng EXCEPT
                     !.pc = "idle",
                     !.generated = [r \in EngineRequests |-> generated(r)],
                     !.allocator = free_groups(@, eng.block_tables, done),
                     !.block_tables = [r \in EngineRequests |-> IF r \in done THEN <<>> ELSE @[r]],
                     !.context_len = [r \in EngineRequests |-> IF r \in done THEN 0 ELSE @[r]],
                     !.status = [r \in EngineRequests |->
                                    IF r \in done THEN "FINISHED_LENGTH" ELSE @[r]],
                     !.stream_closed = [r \in EngineRequests |-> @[r] \/ r \in done],
                     !.running = Without(@, done),
                     !.scheduled = {}]
    /\ UNCHANGED <<ctorVars, runVars, streamVars, ra, fw, bm, gres, accum, pool>>

(***************************************************************************)
(* Specifications                                                          *)
(***************************************************************************)
\* no pipeline exists yet and no thread runs
\* no request was added and no call has begun
NoRequests ==
    /\ mutex = Free
    /\ m_draft_generations = {}
    /\ draftAwaiting = {}
    /\ draftRequests = {}
    /\ draftGen = [r \in Ids |-> <<>>]
    /\ mainAwaiting = {}
    /\ mainRequests = {}
    /\ mainSeq = [r \in Ids |-> [prompt_left |-> 0, gen |-> 0, generated_ids |-> <<>>]]
    /\ streams = [r \in Ids |-> <<>>]
    /\ finished = [r \in Ids |-> FALSE]
    /\ ar = [id |-> 0, added |-> {}]
    /\ st = NoStep
    /\ g = NoGenerate
    /\ streamerLog = <<>>
    /\ results = <<>>
    /\ stepStart = {}

NoRun == NoRequests /\ sent = NoSent(DefaultArgs)

\* the constructor's inputs are drawn, nothing has run
InitCtor ==
    /\ desc \in [cache_size : 0..MaxCache,
                 main_hidden : 1..MaxHidden,
                 draft_hidden : 1..MaxHidden,
                 draft_undefined : BOOLEAN,
                 draft_cache_size : {0, 1, MaxCache},
                 main_tokenizer : {NoTokenizer},
                 draft_tokenizer : {NoTokenizer}]
    /\ (desc.draft_undefined <=> desc.draft_cache_size = 0)
    /\ ctor = [pc |-> "start", main_cache_size |-> 0, draft_cache_size |-> 0]
    /\ NoRun
    /\ NoLib
    /\ max_new_tokens = 1
    /\ genIn = [n |-> 0, m |-> 0, streamer |-> FALSE, mode |-> "greedy",
                adapters_equal |-> TRUE, bad_shape |-> 0]
    /\ pc = [t \in Threads |-> "off"]

NextCtor ==
    \/ CtorSplitCache
    \/ CtorCheckTokenizers
    \/ CtorCreatePipelines

SpecCtor == InitCtor /\ [][NextCtor]_vars

\* a coordinator constructed from two models with equal tokenizers
Constructed ==
    /\ desc = [cache_size |-> 2, main_hidden |-> 2, draft_hidden |-> 1,
               draft_undefined |-> TRUE, draft_cache_size |-> 0,
               main_tokenizer |-> [enc |-> <<1>>, eos |-> 1, bos |-> 1, pad |-> 1],
               draft_tokenizer |-> [enc |-> <<1>>, eos |-> 1, bos |-> 1, pad |-> 1]]
    /\ ctor = [pc |-> "done",
               main_cache_size |-> SplitCacheSizes(2, 2, 1).main,
               draft_cache_size |-> SplitCacheSizes(2, 2, 1).draft]

\* generate calls with one well-formed input
SingleInputArgs ==
    {a \in GenerateArgs : /\ a.n = 1
                          /\ a.m = 1
                          /\ a.mode = "greedy"
                          /\ a.bad_shape = 0}

\* one thread calls generate, one adds requests, one calls step
Init ==
    /\ Constructed
    /\ NoLib
    /\ NoRun
    /\ max_new_tokens \in 1..MaxNewTokensShared
    /\ genIn \in SingleInputArgs
    /\ pc = [t \in Threads |-> IF t = "gen" THEN "g_assert" ELSE "idle"]

StepOf(t) ==
    \/ StepLock(t)
    \/ StepPullDraft(t)
    \/ StepPullMain(t)
    \/ StepDraft(t)
    \/ StepMain(t)
    \/ StepFinish(t)

AddRequestOf(t) ==
    \/ AddRequestCall(t)
    \/ AddRequestLock(t)
    \/ AddRequestDraft(t)
    \/ AddRequestMain(t)

GenerateOf(t) ==
    \/ GenAssert(t)
    \/ GenAdapters(t)
    \/ GenStreamer(t)
    \/ GenAddMain(t)
    \/ GenAddDraft(t)
    \/ GenLoop(t)
    \/ GenAfterStep(t)
    \/ GenPut(t)
    \/ GenEnd(t)
    \/ GenResults(t)
    \/ GenReadCheck(t)
    \/ GenReadPull(t)
    \/ GenResultPush(t)

Next ==
    \/ \E t \in {"client"} : AddRequestOf(t)
    \/ \E t \in {"stepper"} : StepCall(t)
    \/ \E t \in {"stepper", "gen"} : StepOf(t)
    \/ \E t \in {"gen"} : GenerateOf(t)

Spec == Init /\ [][Next]_vars

\* generate alone: the only thread is the one that calls generate
InitGen ==
    /\ Constructed
    /\ NoLib
    /\ \E pre \in SUBSET ClientIds :
        /\ mutex = Free
        /\ m_draft_generations = pre
        /\ draftAwaiting = pre
        /\ draftRequests = {}
        /\ draftGen = [r \in Ids |-> <<>>]
        /\ mainAwaiting = pre
        /\ mainRequests = {}
        /\ mainSeq = [r \in Ids |-> [prompt_left |-> IF r \in pre THEN 1 ELSE 0, gen |-> 0,
                                    generated_ids |-> <<>>]]
        /\ streams = [r \in Ids |-> <<>>]
        /\ finished = [r \in Ids |-> FALSE]
        /\ ar = [id |-> 0, added |-> pre]
    /\ st = NoStep
    /\ g = NoGenerate
    /\ streamerLog = <<>>
    /\ results = <<>>
    /\ stepStart = {}
    /\ max_new_tokens \in 1..MaxNewTokens
    /\ genIn \in GenerateArgs
    /\ pc = [t \in Threads |-> IF t = "gen" THEN "g_assert" ELSE "off"]
    /\ \E a \in DefaultArgs :
        sent = [NoSent(DefaultArgs) EXCEPT
                  !.caller = [r \in Ids |->
                      IF r \in ar.added
                      THEN Request(r, a.input_ids, SamplingParams(a.ignore_eos))
                      ELSE NoRequest],
                  !.main = [r \in Ids |->
                      IF r \in ar.added
                      THEN Request(r, a.input_ids, SamplingParams(a.ignore_eos))
                      ELSE NoRequest],
                  !.draft = [r \in Ids |->
                      IF r \in ar.added
                      THEN Request(r, a.input_ids,
                                   DraftSamplingParams(SamplingParams(a.ignore_eos)))
                      ELSE NoRequest]]

NextGen ==
    \/ \E t \in {"gen"} : StepOf(t)
    \/ \E t \in {"gen"} : GenerateOf(t)

SpecGen == InitGen /\ [][NextGen]_vars

\* add_request against step: one thread adds requests, one calls step
InitAdd ==
    /\ Constructed
    /\ NoLib
    /\ NoRun
    /\ max_new_tokens \in 1..MaxNewTokens
    /\ genIn = [n |-> 0, m |-> 0, streamer |-> FALSE, mode |-> "greedy",
                adapters_equal |-> TRUE, bad_shape |-> 0]
    /\ pc = [t \in Threads |-> IF t = "gen" THEN "off" ELSE "idle"]

NextAdd ==
    \/ \E t \in {"client"} : AddRequestOf(t)
    \/ \E t \in {"stepper"} : StepCall(t)
    \/ \E t \in {"stepper"} : StepOf(t)

SpecAdd == InitAdd /\ [][NextAdd]_vars

\* a producer and readers of one GenerationStream: the producer pushes its
\* outputs and finishes the stream, each reader that runs calls read_all
InitStream ==
    /\ Constructed
    /\ NoRun
    /\ max_new_tokens = 1
    /\ genIn = [n |-> 0, m |-> 0, streamer |-> FALSE, mode |-> "greedy",
                adapters_equal |-> TRUE, bad_shape |-> 0]
    /\ pc = [t \in Threads |-> "off"]
    /\ m_output_queue = <<>>
    /\ m_generation_finished = FALSE
    /\ producer = [pc |-> "push", count |-> 0]
    /\ \E running \in SUBSET Readers :
        /\ running # {}
        /\ reader = [r \in Readers |->
                        [pc |-> IF r \in running THEN "ra_finished" ELSE "off",
                         read |-> <<>>]]
    /\ pushed = <<>>
    /\ readLog = <<>>
    /\ NoReadAll
    /\ NoForward
    /\ NoBlocks
    /\ NoEngine
    /\ NoResults
    /\ NoAccumulate
    /\ NoPool

NextStream ==
    \/ StreamPush
    \/ StreamFinish
    \/ \E r \in Readers : ReadAllFinished(r)
    \/ \E r \in Readers : ReadAllCanRead(r)
    \/ \E r \in Readers : ReadAllRead(r)

SpecStream == InitStream /\ [][NextStream]_vars

\* read_all alone, reading the outputs of a request whose sequences fork
InitReadAll ==
    /\ Constructed
    /\ NoRun
    /\ max_new_tokens = 1
    /\ genIn = [n |-> 0, m |-> 0, streamer |-> FALSE, mode |-> "greedy",
                adapters_equal |-> TRUE, bad_shape |-> 0]
    /\ pc = [t \in Threads |-> "off"]
    /\ NoStream
    /\ ra = [pc |-> "loop", iter |-> 0, outputs_chunks |-> <<>>,
             intermediate_results |-> [s \in {} |-> <<>>],
             last_iteration_results |-> {}, results |-> [s \in {} |-> <<>>],
             expected |-> [s \in SeqIds |-> <<>>], used |-> {}, zero_parent |-> FALSE,
          shared |-> {}, parent |-> [s \in SeqIds |-> -1],
          orphan |-> FALSE, cumulative_log_prob |-> [s \in {} |-> 0],
          result_log_prob |-> [s \in {} |-> 0],
          first_log_prob |-> [s \in SeqIds |-> 0],
          last_log_prob |-> [s \in SeqIds |-> 0]]
    /\ NoForward
    /\ NoBlocks
    /\ NoEngine
    /\ NoResults
    /\ NoAccumulate
    /\ NoPool

NextReadAll ==
    \/ ReadAllIterate
    \/ ReadAllGather

SpecReadAll == InitReadAll /\ [][NextReadAll]_vars

\* one forward pass over the scheduled sequence groups
InitForward ==
    /\ Constructed
    /\ NoRun
    /\ max_new_tokens = 1
    /\ genIn = [n |-> 0, m |-> 0, streamer |-> FALSE, mode |-> "greedy",
                adapters_equal |-> TRUE, bad_shape |-> 0]
    /\ pc = [t \in Threads |-> "off"]
    /\ NoStream
    /\ NoReadAll
    /\ \E groups \in UNION {[1..n -> SequenceGroups] : n \in 1..MaxGroups} :
        fw = ForwardCall(groups)
    /\ NoBlocks
    /\ NoEngine
    /\ NoResults
    /\ NoAccumulate
    /\ NoPool

\* the scheduler schedules tokens that exist: the positions of a pass are
\* below the context length, prompt_len + generated ids
Schedulable(group) ==
    group.num_processed_tokens + group.num_scheduled_tokens
        <= group.prompt_len + group.generated_len

\* the groups of a pass with prompts and generated ids of any length, each
\* sequence with the same block table
TokenGroups ==
    {group \in [num_processed_tokens : 0..MaxProcessed,
                num_scheduled_tokens : 1..MaxScheduled,
                prompt_len : 1..MaxPromptLen,
                generated_len : 0..MaxGenerated,
                kv_blocks : UNION {[1..n -> {[x \in 1..TableLen |-> (x - 1) % NumBlocks]}] :
                                      n \in 1..MaxRunning}] :
        Schedulable(group)}

\* one forward pass over groups in their prompt, in generation, or both
InitForwardTokens ==
    /\ Constructed
    /\ NoRun
    /\ max_new_tokens = 1
    /\ genIn = [n |-> 0, m |-> 0, streamer |-> FALSE, mode |-> "greedy",
                adapters_equal |-> TRUE, bad_shape |-> 0]
    /\ pc = [t \in Threads |-> "off"]
    /\ NoStream
    /\ NoReadAll
    /\ \E groups \in UNION {[1..n -> TokenGroups] : n \in 1..MaxGroups} :
        fw = ForwardCall(groups)
    /\ NoBlocks
    /\ NoEngine
    /\ NoResults
    /\ NoAccumulate
    /\ NoPool

NextForward ==
    \/ ForwardAggregate
    \/ ForwardGroup
    \/ ForwardSequence
    \/ ForwardToken

SpecForwardTokens == InitForwardTokens /\ [][NextForward]_vars

SpecForward == InitForward /\ [][NextForward]_vars

\* the block manager alone: one waiting sequence, the others not yet forked
InitBlocks ==
    /\ Constructed
    /\ NoRun
    /\ max_new_tokens = 1
    /\ genIn = [n |-> 0, m |-> 0, streamer |-> FALSE, mode |-> "greedy",
                adapters_equal |-> TRUE, bad_shape |-> 0]
    /\ pc = [t \in Threads |-> "off"]
    /\ NoStream
    /\ NoReadAll
    /\ NoForward
    /\ \E waiting \in (SUBSET SeqIds) \ {{}} :
        bm = [pc |-> "on",
              allocator |-> NewAllocator,
              block_tables |-> [s \in SeqIds |-> <<>>],
              context_len |-> [s \in SeqIds |-> 0],
              status |-> [s \in SeqIds |-> IF s \in waiting THEN "waiting" ELSE "none"],
              copied |-> FALSE, preempted |-> FALSE]
    /\ NoEngine
    /\ NoResults
    /\ NoAccumulate
    /\ NoPool

NextBlocks ==
    \/ \E s \in SeqIds : Admit(s)
    \/ \E s \in SeqIds : AppendSlot(s)
    \/ \E parent, child \in SeqIds : ForkSequence(parent, child)
    \/ \E s \in SeqIds : FinishSequence(s)
    \/ \E s \in SeqIds : Preempt(s)

SpecBlocks == InitBlocks /\ [][NextBlocks]_vars

\* the engine loop on its own: requests arrive and handles are dropped
\* while the driver thread steps
InitEngine ==
    /\ Constructed
    /\ NoRun
    /\ max_new_tokens = 1
    /\ genIn = [n |-> 0, m |-> 0, streamer |-> FALSE, mode |-> "greedy",
                adapters_equal |-> TRUE, bad_shape |-> 0]
    /\ pc = [t \in Threads |-> "off"]
    /\ NoStream
    /\ NoReadAll
    /\ NoForward
    /\ NoBlocks
    /\ NoResults
    /\ NoAccumulate
    /\ NoPool
    /\ eng = [pc |-> "idle",
              status |-> [r \in EngineRequests |-> "none"],
              prompt_len |-> [r \in EngineRequests |-> 0],
              arrival |-> <<>>,
              generated |-> [r \in EngineRequests |-> 0],
              context_len |-> [r \in EngineRequests |-> 0],
              block_tables |-> [r \in EngineRequests |-> <<>>],
              allocator |-> NewAllocator,
              running |-> <<>>,
              scheduled |-> {},
              handle_dropped |-> [r \in EngineRequests |-> FALSE],
              stream_closed |-> [r \in EngineRequests |-> FALSE],
              preempted |-> {},
              stepped |-> FALSE,
              late |-> FALSE,
              generated_at_drop |-> [r \in EngineRequests |-> 0],
              dropped_in_step |-> [r \in EngineRequests |-> FALSE],
              steps_after_drop |-> [r \in EngineRequests |-> 0]]

EngineStep ==
    \/ EngineStepStart
    \/ EngineContinue
    \/ EngineAdmit
    \/ EngineSample

NextEngine ==
    \/ \E r \in EngineRequests : EngineAddRequest(r)
    \/ \E r \in EngineRequests : EngineDrop(r)
    \/ EngineStep

SpecEngine == InitEngine /\ [][NextEngine]_vars

\* the driver thread calls step() as long as requests are unfinished
SpecEngineFair == InitEngine /\ [][NextEngine]_vars /\ WF_vars(EngineStep)

\* add_request and generate, whose steps are the only ones, with callers that
\* choose their input and their sampling parameters
InitSubmit ==
    /\ Constructed
    /\ NoLib
    /\ NoRequests
    /\ sent = NoSent(CallerArgs)
    /\ max_new_tokens = MaxNewTokensShared
    /\ genIn \in SingleInputArgs
    /\ pc = [t \in Threads |-> IF t = "gen" THEN "g_assert" ELSE IF t = "client" THEN "idle" ELSE "off"]

NextSubmit ==
    \/ \E t \in {"client"} : AddRequestOf(t)
    \/ \E t \in {"gen"} : StepOf(t)
    \/ \E t \in {"gen"} : GenerateOf(t)

SpecSubmit == InitSubmit /\ [][NextSubmit]_vars

(***************************************************************************)
(* Properties                                                              *)
(***************************************************************************)
\* thread t is inside step(), between taking the mutex and returning
InStep(t) == pc[t] \in {"s_pull_draft", "s_pull_main", "s_draft", "s_main", "s_finish"}

\* the thread calling generate is past the streamer's end()
AfterEnd == pc["gen"] \in {"g_results", "g_read_check", "g_read_pull", "g_result_push", "done"}

\* generate has ended without returning
Aborted == pc["gen"] \in {"rejected", "crashed"}

PutReturned(log, b) == \E k \in 1..Len(log) : log[k].op = "put" /\ log[k].returned = b

IsPut(e) == e.op = "put"
IsEnd(e) == e.op = "end"

Puts(log) == SelectSeq(log, IsPut)
Ends(log) == SelectSeq(log, IsEnd)

\* C1: while a thread executes step(), no request submitted through
\* add_request becomes known to the draft or to the main pipeline: those
\* registered (awaiting or in the batch) are the ones registered when the
\* step took the mutex, so a request added meanwhile enters a batch no
\* earlier than the next step.
Thm_C1 ==
    \A t \in Threads :
        InStep(t) => ((DraftRegistered \cup MainRegistered) \cap ClientIds) \subseteq stepStart

\* a step holds a non-empty batch while add_request waits for the mutex
Witness_C1 ==
    /\ pc["stepper"] = "s_main"
    /\ mainRequests # {}
    /\ pc["client"] = "ar_lock"
    /\ ar.id \notin (DraftRegistered \cup MainRegistered)

\* C2: whenever a step has drained the two waiting queues, the requests of
\* the draft pipeline are those of the main pipeline.
CE_C2 ==
    \A t \in Threads : pc[t] = "s_draft" => draftRequests = mainRequests

\* C3 as claimed: construction succeeds only for tokenizers that agree on
\* the token ids of the canary string and on EOS, BOS and PAD.
CE_C3 ==
    ctor.pc \in {"pipelines", "done"} =>
        /\ encode(desc.main_tokenizer) = encode(desc.draft_tokenizer)
        /\ desc.main_tokenizer.eos = desc.draft_tokenizer.eos
        /\ desc.main_tokenizer.bos = desc.draft_tokenizer.bos
        /\ desc.main_tokenizer.pad = desc.draft_tokenizer.pad

\* C3: construction is refused exactly when the two encodings of the canary
\* string differ in length or the tokenizers differ in EOS, BOS or PAD.
Thm_C3 ==
    ctor.pc \in {"pipelines", "done", "refused"} =>
        (ctor.pc = "refused" <=>
            \/ Len(desc.main_tokenizer.enc) # Len(desc.draft_tokenizer.enc)
            \/ desc.main_tokenizer.eos # desc.draft_tokenizer.eos
            \/ desc.main_tokenizer.bos # desc.draft_tokenizer.bos
            \/ desc.main_tokenizer.pad # desc.draft_tokenizer.pad)

\* a coordinator built from tokenizers that encode the canary string to
\* different ids of the same length
Witness_C3 ==
    /\ ctor.pc = "done"
    /\ desc.main_tokenizer.enc # desc.draft_tokenizer.enc
    /\ Len(desc.main_tokenizer.enc) = Len(desc.draft_tokenizer.enc)

Thm_C5 ==
    /\ Len(Ends(streamerLog)) <= 1
    /\ (Len(Ends(streamerLog)) = 1 => IsEnd(streamerLog[Len(streamerLog)]))
    /\ (~genIn.streamer => streamerLog = <<>>)
    /\ (AfterEnd /\ genIn.streamer => Len(Ends(streamerLog)) = 1)
    /\ (~AfterEnd => Len(Ends(streamerLog)) = 0)

\* generate has returned after its streamer received two tokens and end()
Witness_C5 ==
    /\ pc["gen"] = "done"
    /\ Len(Puts(streamerLog)) >= 2
    /\ ~PutReturned(streamerLog, TRUE)
    /\ IsEnd(streamerLog[Len(streamerLog)])

\* C6: a generate call with a streamer and a batch that is not one greedy or
\* multinomial input ends rejected, and adds no request to either pipeline.
CE_C6 ==
    (/\ genIn.streamer
     /\ ~(genIn.n = 1 /\ genIn.mode \in {"greedy", "multinomial"})
     /\ pc["gen"] \notin {"g_assert", "g_adapters", "g_streamer"})
        => (pc["gen"] = "rejected" /\ g.added_main = {} /\ g.added_draft = {})

\* C7: a generate call made while the pipeline has unfinished requests, or
\* with different numbers of inputs and sampling parameters, ends rejected;
\* it has added no request to either pipeline and run no step.
Thm_C7 ==
    (pc["gen"] # "g_assert" /\ (g.was_running \/ genIn.n # genIn.m)) =>
        /\ pc["gen"] = "rejected"
        /\ g.added_main = {} /\ g.added_draft = {}
        /\ MainRegistered \cap GenIds = {} /\ DraftRegistered \cap GenIds = {}
        /\ m_draft_generations \cap GenIds = {}
        /\ g.steps = 0

\* generate rejected a well-formed batch because a request was unfinished
Witness_C7 ==
    /\ pc["gen"] = "rejected"
    /\ g.was_running
    /\ genIn.n = genIn.m
    /\ genIn.n >= 1

\* C8: the i-th result generate returns carries request id i (from 0).
CE_C8 ==
    pc["gen"] = "done" =>
        \A k \in 1..Len(results) : results[k].m_request_id = k - 1

\* the cache split is decided: the draft scheduler config was left unspecified
SplitDone == ctor.pc # "start" /\ desc.draft_undefined

\* C9 as claimed: main cache = ceil(cache_size * (1 - k)) and the two cache
\* sizes add up to cache_size.
CE_C9 ==
    SplitDone =>
        /\ ctor.main_cache_size =
              CeilMainShare(desc.cache_size, desc.main_hidden, desc.draft_hidden)
        /\ ctor.main_cache_size + ctor.draft_cache_size = desc.cache_size

\* C9: the two cache sizes add up to cache_size unless cache_size = 1, where
\* both are 1; main cache = ceil(cache_size * (1 - k)) unless that is all of
\* a non-empty cache, where the draft gets 1 block, taken from main when
\* main has more than one.
Thm_C9 ==
    SplitDone =>
        LET c == desc.cache_size
            ceil == (c * desc.main_hidden + desc.main_hidden + desc.draft_hidden - 1)
                        \div (desc.main_hidden + desc.draft_hidden)
        IN  /\ c # 1 => ctor.main_cache_size + ctor.draft_cache_size = c
            /\ c = 1 => (ctor.main_cache_size = 1 /\ ctor.draft_cache_size = 1)
            /\ (ceil < c \/ c = 0) => ctor.main_cache_size = ceil
            /\ (ceil = c /\ c > 1) =>
                    (ctor.main_cache_size = c - 1 /\ ctor.draft_cache_size = 1)

\* a split that moved one block from the main to the draft cache
Witness_C9 ==
    /\ ctor.pc = "done"
    /\ desc.draft_undefined
    /\ desc.cache_size >= 2
    /\ ctor.draft_cache_size = 1
    /\ ctor.main_cache_size = desc.cache_size - 1
    /\ CeilMainShare(desc.cache_size, desc.main_hidden, desc.draft_hidden) = desc.cache_size

\* C10 as claimed: the draft cache size after the split is at least 1.
CE_C10 == SplitDone => ctor.draft_cache_size >= 1

\* C10: the draft cache size after the split is at least 1 for every
\* cache_size >= 1; for cache_size = 0 both caches are 0.
Thm_C10 ==
    SplitDone =>
        /\ desc.cache_size >= 1 => ctor.draft_cache_size >= 1
        /\ desc.cache_size = 0 => (ctor.draft_cache_size = 0 /\ ctor.main_cache_size = 0)

\* a cache of one block, which the main share takes whole, still gives the
\* draft a block
Witness_C10 ==
    /\ ctor.pc = "done"
    /\ desc.draft_undefined
    /\ desc.cache_size = 1
    /\ ctor.draft_cache_size = 1

\* no thread is inside step(): the last step, if any, has returned
NoStepRuns == \A t \in Threads : ~InStep(t)

\* C11: when a step has returned, every request of the draft pipeline is
\* among the main pipeline's generated requests; a draft request that was
\* not among them at the end of the step has been finished and erased from
\* m_draft_generations, and one that was among them is still a request of
\* the draft pipeline and still in m_draft_generations.
Thm_C11 ==
    NoStepRuns =>
        /\ draftRequests \subseteq mainRequests
        /\ \A r \in st.draft_generated_requests :
              IF r \in st.main_generated_requests
              THEN r \in draftRequests /\ r \in m_draft_generations
              ELSE r \notin draftRequests /\ r \notin m_draft_generations

\* a step has returned that finished the draft request of one finished main
\* request and kept that of another
Witness_C11 ==
    /\ NoStepRuns
    /\ \E r \in st.draft_generated_requests \ st.main_generated_requests :
            r \notin m_draft_generations
    /\ \E r \in st.draft_generated_requests \cap st.main_generated_requests :
            r \in draftRequests

\* the metrics the last step recorded for request r are those of removed
\* tokens out of the inserted ones
MetricsAre(r, removed) ==
    /\ st.metrics[r].recorded
    /\ st.metrics[r].acceptance_rate.num * st.inserted[r]
          = 100 * (st.inserted[r] - removed) * st.metrics[r].acceptance_rate.den
    /\ st.metrics[r].draft_accepted_tokens = st.inserted[r] - removed

\* C12: when a step has returned, for every request with inserted > 0 the
\* recorded acceptance rate is (1 - removed / inserted) * 100 and the recorded
\* number of accepted tokens is inserted - removed, removed being the
\* candidates the main model did not accept; for a request with inserted = 0
\* nothing is recorded.
CE_C12 ==
    NoStepRuns =>
        \A r \in Ids :
            IF st.inserted[r] > 0
            THEN MetricsAre(r, st.inserted[r] - st.accepted[r])
            ELSE ~st.metrics[r].recorded

\* the statement of C12 for the requests the main pipeline has not finished
\* in the step, and what is recorded for those it has finished: all the
\* inserted candidates as accepted
MetricsOfStep ==
    NoStepRuns =>
        \A r \in Ids :
            IF st.inserted[r] = 0 THEN ~st.metrics[r].recorded
            ELSE IF r \in st.main_generated_requests
            THEN MetricsAre(r, st.inserted[r] - st.accepted[r])
            ELSE MetricsAre(r, 0)

\* a is a prefix of b, or equal to it
IsPrefix(a, b) == Len(a) <= Len(b) /\ \A x \in 1..Len(a) : a[x] = b[x]

Thm_C14 ==
    genIn.mode = "greedy" =>
        \A r \in Ids :
            /\ mainSeq[r].generated_ids = NewTokens(0, mainSeq[r].gen)
            /\ \A k \in 1..Len(streams[r]) :
                  \A x \in 1..Len(streams[r][k]) :
                      streams[r][k][x] \in 1..mainSeq[r].gen

\* a greedy request has finished after a step that rejected a candidate and
\* a step that accepted one
Witness_C14 ==
    /\ genIn.mode = "greedy"
    /\ pc["gen"] = "g_after_step"
    /\ finished[0]
    /\ mainSeq[0].gen = MaxNewTokens
    /\ st.accepted[0] = 1
    /\ Len(streams[0]) = 3

\* the tokens the streamer has received through put, in the order of the calls
PutTokens == [k \in 1..Len(Puts(streamerLog)) |-> Puts(streamerLog)[k].token]

\* C17: the tokens passed to put are, in order and each once, the first
\* generated ids of the request; whenever generate is at its loop condition,
\* or past the loop, and no put has cancelled the generation, they are all
\* the generated ids.
Thm_C17 ==
    genIn.streamer =>
        /\ IsPrefix(PutTokens, mainSeq[0].generated_ids)
        /\ (pc["gen"] \in {"g_loop", "g_end"} \/ AfterEnd) /\ ~PutReturned(streamerLog, TRUE)
              => PutTokens = mainSeq[0].generated_ids

\* the loop of generate has ended after a step that generated no token and
\* steps that generated one and two tokens, each of which the streamer got
Witness_C17 ==
    /\ genIn.streamer
    /\ pc["gen"] = "g_end"
    /\ ~PutReturned(streamerLog, TRUE)
    /\ g.steps > Len(streams[0])
    /\ \E k \in 1..Len(streams[0]) : Len(streams[0][k]) = 2
    /\ \E k \in 1..Len(streams[0]) : Len(streams[0][k]) = 1
    /\ Len(PutTokens) = MaxNewTokens

\* the readers that run read_all
Running == {r \in Readers : reader[r].pc # "off"}

\* reader r waits in read() for an output that no push will bring
Blocked(r) ==
    /\ reader[r].pc = "ra_read"
    /\ empty(m_output_queue)
    /\ producer.pc = "done"
    /\ m_generation_finished

\* C15: once the producer has pushed its last output and finished the
\* stream, the only reader of the stream is not left waiting in read().
CE_C15 ==
    \A r \in Readers : Running = {r} => ~Blocked(r)

\* what C15 leaves of read_all: a reader that returns has found the stream
\* finished and empty, and a single reader has then read every output pushed
ReadAllReturns ==
    \A r \in Readers :
        reader[r].pc = "ra_done" =>
            /\ m_generation_finished
            /\ Running = {r} => reader[r].read = pushed

\* C18: the outputs read() has returned, in the order of the returns,
\* followed by the outputs in the queue, are the outputs pushed, in the order
\* of the pushes; what a reader got is in that order; push and can_read are
\* enabled whenever a thread is at them; and can_read holds exactly when an
\* output pushed has not been returned by a read.
Thm_C18 ==
    /\ readLog \o m_output_queue = pushed
    /\ \A r \in Readers :
          \A x, y \in 1..Len(reader[r].read) : x < y => reader[r].read[x] < reader[r].read[y]
    /\ \A x \in 1..Len(readLog) :
          Cardinality({r \in Readers : \E y \in 1..Len(reader[r].read) :
                                            reader[r].read[y] = readLog[x]}) = 1
    /\ (producer.pc = "push" /\ producer.count < MaxOutputs) => ENABLED StreamPush
    /\ \A r \in Readers : reader[r].pc = "ra_can_read" => ENABLED ReadAllCanRead(r)
    /\ ~empty(m_output_queue) <=> Len(readLog) < Len(pushed)

\* two readers have each read outputs of a stream that still holds one
Witness_C18 ==
    /\ \A r \in Readers : Len(reader[r].read) >= 1
    /\ Len(pushed) = MaxOutputs
    /\ Len(m_output_queue) = 1
    /\ \E r \in Readers : reader[r].pc = "ra_can_read"

\* C16: every sequence read_all returns is the tokens of its parent from the
\* iterations before its first, followed by its own, along every chain of
\* forks.
CE_C16 ==
    ra.pc = "done" =>
        \A s \in DOMAIN ra.results : ra.results[s] = ra.expected[s]

\* what holds of C16: the sequences returned are stitched as stated when no
\* sequence has forked from the sequence with id 0
StitchedUnlessParentZero ==
    (ra.pc = "done" /\ ~ra.zero_parent) =>
        \A s \in DOMAIN ra.results : ra.results[s] = ra.expected[s]

\* no two sequences go on in the same chunk
LastChunksDistinct ==
    \A s, t \in DOMAIN ra.intermediate_results :
        s # t => ra.intermediate_results[s][Len(ra.intermediate_results[s])]
                    # ra.intermediate_results[t][Len(ra.intermediate_results[t])]

\* C19: when forward has filled the tensors, the slot of the token at
\* position p of a running sequence, in the order groups, sequences, tokens,
\* is BLOCK_SIZE * index(block_table[p div BLOCK_SIZE]) + p mod BLOCK_SIZE
\* for the block table of that sequence.
Thm_C19 ==
    fw.pc = "done" =>
        \A i \in 1..Len(fw.groups) :
            \A k \in 1..Len(fw.groups[i].kv_blocks) :
                \A j \in 0..(fw.groups[i].num_scheduled_tokens - 1) :
                    LET p == fw.groups[i].num_processed_tokens + j
                        row == BatchSize(fw.groups, i - 1)
                                  + (k - 1) * fw.groups[i].num_scheduled_tokens + j + 1
                    IN  fw.slot_mapping[row] =
                            BLOCK_SIZE * fw.groups[i].kv_blocks[k][(p \div BLOCK_SIZE) + 1]
                                + (p % BLOCK_SIZE)

\* a pass over two groups has ended, the second with two sequences whose
\* last token is in the second block of tables that differ
Witness_C19 ==
    /\ fw.pc = "done"
    /\ Len(fw.groups) = 2
    /\ Len(fw.groups[2].kv_blocks) = 2
    /\ fw.groups[2].num_processed_tokens + fw.groups[2].num_scheduled_tokens = 4
    /\ fw.groups[2].kv_blocks[1][2] # fw.groups[2].kv_blocks[2][2]
    /\ fw.groups[2].kv_blocks[2][2] # fw.groups[2].kv_blocks[2][1]

RECURSIVE SumRefcount(_)
SumRefcount(blocks) ==
    IF blocks = {} THEN 0
    ELSE LET b == CHOOSE x \in blocks : TRUE
         IN  bm.allocator.refcount[b] + SumRefcount(blocks \ {b})

RECURSIVE SumTables(_)
SumTables(seqs) ==
    IF seqs = {} THEN 0
    ELSE LET s == CHOOSE x \in seqs : TRUE
         IN  Len(bm.block_tables[s]) + SumTables(seqs \ {s})

\* C20: after every operation of the block manager (allocate, fork,
\* copy-on-write, free, preemption, finish) the reference counts of all
\* blocks sum to the block-table lengths of all live sequences.
Thm_C20 ==
    bm.pc = "on" => SumRefcount(Blocks) = SumTables(LiveSequences)

\* after a copy-on-write and a preemption, two live sequences share their
\* first block and differ in their last
Witness_C20 ==
    /\ bm.pc = "on"
    /\ bm.copied
    /\ bm.preempted
    /\ \E s, t \in LiveSequences :
        /\ s # t
        /\ Len(bm.block_tables[s]) = 2
        /\ Len(bm.block_tables[t]) = 2
        /\ bm.block_tables[s][1] = bm.block_tables[t][1]
        /\ bm.block_tables[s][2] # bm.block_tables[t][2]
        /\ bm.allocator.refcount[bm.block_tables[s][1]] = 2
    /\ \E s \in SeqIds : bm.status[s] = "finished"

\* the blocks of the free list, and the blocks in the tables of live sequences
FreeBlocks == {bm.allocator.free_list[x] : x \in 1..Len(bm.allocator.free_list)}

AllocatedBlocks ==
    UNION {{bm.block_tables[s][x] : x \in 1..Len(bm.block_tables[s])} : s \in LiveSequences}

\* C21: after every operation of the block manager the free and the allocated
\* blocks add up to the pool, and the free list holds, once each, exactly the
\* blocks of reference count 0: no block of a live table is free and no
\* unreferenced block is lost.
Thm_C21 ==
    bm.pc = "on" =>
        /\ Len(bm.allocator.free_list) + Cardinality(AllocatedBlocks) = PoolBlocks
        /\ Cardinality(FreeBlocks) = Len(bm.allocator.free_list)
        /\ FreeBlocks = {b \in Blocks : bm.allocator.refcount[b] = 0}
        /\ FreeBlocks \cap AllocatedBlocks = {}
        /\ FreeBlocks \cup AllocatedBlocks = Blocks

\* a block came back to the free list after a copy-on-write and a preemption
\* while another block is still shared
Witness_C21 ==
    /\ bm.pc = "on"
    /\ bm.copied
    /\ bm.preempted
    /\ \E b \in Blocks : bm.allocator.refcount[b] = 2
    /\ bm.allocator.free_list # <<>>
    /\ \E x \in 1..Len(bm.allocator.free_list) :
        \E y \in 1..Len(bm.allocator.free_list) :
            x < y /\ bm.allocator.free_list[x] > bm.allocator.free_list[y]

\* With a draft whose multistep() leaves one slot of max_new_tokens for the
\* main model's token (DraftMultistep), the accepted candidates and the main
\* model's token never take a sequence past max_new_tokens.
GeneratedWithinLimit ==
    \A r \in Ids :
        /\ mainSeq[r].gen <= max_new_tokens
        /\ Len(mainSeq[r].generated_ids) <= max_new_tokens

EngineFinished(r) == eng.status[r] \in {"FINISHED_LENGTH", "DROPPED"}

\* the scenario of cache exhaustion: every request was added before the
\* first step with the longest prompt, and no handle was dropped
Exhaustion ==
    /\ ~eng.late
    /\ \A r \in EngineRequests :
        /\ eng.status[r] # "none"
        /\ eng.prompt_len[r] = PromptLen
        /\ ~eng.handle_dropped[r]

\* while requests are unfinished the engine has not halted and a step, or
\* the next phase of the running step, can be taken
NoEngineDeadlock ==
    EngineHasNonFinished => eng.pc # "halted" /\ ENABLED EngineStep

\* in the scenario of cache exhaustion a request has been preempted by the
\* time all requests are finished
PreemptedWhenExhausted ==
    (Exhaustion /\ \A r \in EngineRequests : EngineFinished(r)) => eng.preempted # {}

\* C23: with PoolBlocks blocks of EngineBlockSize tokens and NumEngineRequests
\* requests of prompt length PromptLen and EngineMaxNewTokens new tokens, at
\* least one request is preempted, every request that was added eventually
\* finishes (time and again all the requests added so far are finished), and
\* the engine never has unfinished requests without a step it can take.
Thm_C23 ==
    /\ [](NoEngineDeadlock /\ PreemptedWhenExhausted)
    /\ []<>(\A r \in EngineRequests : eng.status[r] # "none" => EngineFinished(r))

\* the three requests of the scenario are finished, each by length, after
\* two of them were preempted
Witness_C23 ==
    /\ Exhaustion
    /\ \A r \in EngineRequests : eng.status[r] = "FINISHED_LENGTH"
    /\ Cardinality(eng.preempted) = 2
    /\ Len(eng.allocator.free_list) = PoolBlocks

\* a step began after the handle of r was dropped
StepAfterDrop(r) == eng.handle_dropped[r] /\ eng.steps_after_drop[r] >= 1

\* the blocks in the tables of the engine's groups
EngineHeld ==
    UNION {{eng.block_tables[r][x] : x \in 1..Len(eng.block_tables[r])} : r \in EngineRequests}

\* the blocks of r are back on the free list and its stream is closed
Released(r) ==
    /\ eng.block_tables[r] = <<>>
    /\ Len(eng.allocator.free_list) + Cardinality(EngineHeld) = PoolBlocks
    /\ eng.stream_closed[r]
    /\ r \notin Members(eng.running)

StepPhases ==
    <<"drain_draft", "drain_main", "multistep", "insert", "main_step", "rollback", "finish">>

\* the phases that are complete when a thread is at a position of step()
PhasesBefore(p) ==
    CASE p = "s_pull_draft" -> 0
      [] p = "s_pull_main" -> 1
      [] p = "s_draft" -> 2
      [] p = "s_main" -> 4
      [] p = "s_finish" -> 5

\* C25: the phases of a coordinator step complete in the order drain the
\* draft queue, drain the main queue, draft multistep, insertion of the
\* candidates, one main step, roll-back of the draft, finish of the draft
\* requests without a main counterpart: at each position of step() exactly
\* the phases before it are complete, and a step that has returned has
\* performed each phase once.
Thm_C25 ==
    /\ \A t \in Threads :
        InStep(t) => st.trace = SubSeq(StepPhases, 1, PhasesBefore(pc[t]))
    /\ NoStepRuns => st.trace \in {<<>>, StepPhases}

\* a step has returned in which candidates were inserted and the draft was
\* rolled back
Witness_C25 ==
    /\ NoStepRuns
    /\ st.trace = StepPhases
    /\ \E r \in Ids : st.inserted[r] > 0 /\ st.removed[r] > 0

\* C26: for every request added through add_request or generate, the draft
\* pipeline receives the caller's request id and input with the caller's
\* sampling parameters except ignore_eos = true, the main pipeline receives
\* the caller's request id, input and parameters unchanged, and no draft
\* request stops on EOS.
Thm_C26 ==
    /\ \A r \in Ids :
        /\ sent.draft[r].added =>
            /\ sent.draft[r].request_id = r
            /\ sent.draft[r].input_ids = sent.caller[r].input_ids
            /\ sent.draft[r].sampling_params.ignore_eos
            /\ sent.draft[r].sampling_params.max_new_tokens
                 = sent.caller[r].sampling_params.max_new_tokens
        /\ sent.main[r].added => sent.main[r] = sent.caller[r] /\ sent.caller[r].request_id = r
    /\ DraftRegistered \subseteq {r \in Ids : sent.draft[r].added}
    /\ MainRegistered \subseteq {r \in Ids : sent.main[r].added}
    /\ sent.draft_eos = {}

\* a request of add_request and a request of generate, whose callers did not
\* ask to ignore EOS and passed different inputs, are running in both pipelines
Witness_C26 ==
    \E r \in ClientIds, q \in GenIds :
        /\ {r, q} \subseteq draftRequests \cap mainRequests
        /\ ~sent.caller[r].sampling_params.ignore_eos
        /\ ~sent.caller[q].sampling_params.ignore_eos
        /\ sent.caller[r].input_ids # sent.caller[q].input_ids
        /\ mainSeq[r].gen > 0

(***************************************************************************)
(* generate: the results it builds from what read_all returned             *)
(***************************************************************************)
\* the status a handle reports once read_all has returned
HandleStatuses == {"FINISHED", "DROPPED_BY_HANDLE"}

\* a GenerationOutput: generated_ids stands for its token vector
GenerationOutputs == [generated_ids : 1..MaxOutputs, score : 0..(NumScores - 1)]

\* what read_all may return for one handle: outputs with different token
\* vectors, here numbered in the order read_all returns them
ReadAllResults ==
    {q \in UNION {[1..k -> GenerationOutputs] : k \in 0..MaxOutputs} :
        \A x \in 1..Len(q) : q[x].generated_ids = x}

Orders(n) == {p \in [1..n -> 1..n] : \A a, b \in 1..n : p[a] = p[b] => a = b}

ScoreBefore_less(r1, r2) == r1.score < r2.score

\* the comparator of line 390-392: return r1.score > r2.score;
ScoreBefore(r1, r2) == r1.score > r2.score

\* std::sort with that comparator: some reordering in which no element
\* stands behind one it has to precede (the order of equal scores is free)
sort(generation_outputs) ==
    {q \in {[x \in 1..Len(generation_outputs) |-> generation_outputs[p[x]]] :
                p \in Orders(Len(generation_outputs))} :
        \A a, b \in 1..Len(q) : a < b => ~ScoreBefore(q[b], q[a])}

\* lines 385-403: one iteration of the loop over main_generations
ResultsIteration ==
    /\ gres.pc = "loop"
    /\ gres.generation_idx < gres.n
    /\ \E generation_outputs \in sort(gres.read_all[gres.generation_idx]) :
        LET num_outputs == Min(gres.num_return_sequences[gres.generation_idx],
                               Len(generation_outputs))
            result == [m_request_id |-> ResultRequestId(gres.generation_idx),
                       m_generation_ids |-> [x \in 1..num_outputs |->
                                                generation_outputs[x].generated_ids],
                       m_scores |-> [x \in 1..num_outputs |-> generation_outputs[x].score],
                       m_status |-> gres.status[gres.generation_idx]]
        IN  gres' = [gres EXCEPT !.results = Append(@, result),
                                 !.generation_idx = @ + 1]
    /\ UNCHANGED <<ctorVars, runVars, streamVars, ra, fw, bm, eng, accum, pool>>

\* lines 405-407: OPENVINO_ASSERT(results.size() == input_ids.size()); return results;
ResultsReturn ==
    /\ gres.pc = "loop"
    /\ gres.generation_idx >= gres.n
    /\ gres' = [gres EXCEPT !.pc = IF Len(gres.results) = gres.n
                                   THEN "returned" ELSE "rejected"]
    /\ UNCHANGED <<ctorVars, runVars, streamVars, ra, fw, bm, eng, accum, pool>>

\* generate at line 385, with any outputs read_all may return per handle
InitResults ==
    /\ Constructed
    /\ NoRun
    /\ max_new_tokens = 1
    /\ genIn = [n |-> 0, m |-> 0, streamer |-> FALSE, mode |-> "greedy",
                adapters_equal |-> TRUE, bad_shape |-> 0]
    /\ pc = [t \in Threads |-> "off"]
    /\ NoStream
    /\ NoReadAll
    /\ NoForward
    /\ NoBlocks
    /\ NoEngine
    /\ NoAccumulate
    /\ NoPool
    /\ \E n \in 0..MaxBatch :
       \E read_all \in [0..(n - 1) -> ReadAllResults] :
       \E num_return_sequences \in [0..(n - 1) -> 1..MaxOutputs] :
       \E status \in [0..(n - 1) -> HandleStatuses] :
          gres = [pc |-> "loop", n |-> n, read_all |-> read_all,
                  num_return_sequences |-> num_return_sequences,
                  status |-> status, generation_idx |-> 0, results |-> <<>>]

NextResults == ResultsIteration \/ ResultsReturn

SpecResults == InitResults /\ [][NextResults]_vars

\* the 1-based positions of x in sequence q
PositionsOf(q, x) == {k \in 1..Len(q) : q[k] = x}

\* result r holds the best outputs of what read_all returned for request i
HoldsBest(r, i) ==
    LET outputs == gres.read_all[i]
        num == Min(gres.num_return_sequences[i], Len(outputs))
    IN  /\ Len(r.m_generation_ids) = num
        /\ Len(r.m_scores) = num
        /\ \A x \in 1..num :
              /\ r.m_generation_ids[x] \in 1..Len(outputs)
              /\ outputs[r.m_generation_ids[x]].score = r.m_scores[x]
              /\ PositionsOf(r.m_generation_ids, r.m_generation_ids[x]) = {x}
        /\ \A x, y \in 1..num : x < y => r.m_scores[x] >= r.m_scores[y]
        /\ \A z \in 1..Len(outputs) :
              PositionsOf(r.m_generation_ids, z) = {}
                  => \A x \in 1..num : outputs[z].score <= r.m_scores[x]

\* C27: generate returns one result per input, in input order; the i-th
\* result holds the min(num_return_sequences, n) highest-scoring of the n
\* outputs read_all returned for request i, in non-increasing score order,
\* and the status of the handle of request i
Thm_C27 ==
    /\ Len(gres.results) <= gres.n
    /\ gres.pc = "returned" => Len(gres.results) = gres.n
    /\ gres.pc # "rejected"
    /\ \A i \in 0..(Len(gres.results) - 1) :
          /\ HoldsBest(gres.results[i + 1], i)
          /\ gres.results[i + 1].m_status = gres.status[i]

\* generate has returned two results; request 0 had three outputs that
\* read_all returned in increasing score order, of which two were asked
\* for, and request 1 had fewer outputs than it asked for
Witness_C27 ==
    /\ gres.pc = "returned"
    /\ gres.n = 2
    /\ Len(gres.read_all[0]) = 3
    /\ gres.read_all[0][1].score < gres.read_all[0][2].score
    /\ gres.read_all[0][2].score < gres.read_all[0][3].score
    /\ gres.num_return_sequences[0] = 2
    /\ gres.results[1].m_generation_ids = <<3, 2>>
    /\ Len(gres.read_all[1]) = 1
    /\ gres.num_return_sequences[1] = 3
    /\ gres.status[0] # gres.status[1]

(***************************************************************************)
(* generate: termination                                                   *)
(***************************************************************************)
\* the thread that called generate keeps running while it has a step to take
SpecGenFair == InitGen /\ [][NextGen]_vars /\ WF_vars(NextGen)

\* generate has passed its checks and added its requests
GenerateStarted == pc["gen"] = "g_loop"

GenerateReturned == g.outcome = "returned"

\* generate waits in read() of read_all on a stream that holds no output and
\* is not finished, after the streamer has ended the loop
WaitsForEver ==
    /\ pc["gen"] = "g_read_pull"
    /\ ~can_read(g.generation_idx)
    /\ ~finished[g.generation_idx]
    /\ ~g.continue_generation

\* C28: a generate call that has added its requests eventually returns,
\* whether every request finishes or the streamer cancels the generation
\* while the request is unfinished.
CE_C28 == GenerateStarted ~> GenerateReturned

\* what holds of C28: generate returns unless it is left in read(), which
\* happens only after the streamer has cancelled the generation
ReturnsUnlessCancelled == GenerateStarted ~> (GenerateReturned \/ WaitsForEver)

(***************************************************************************)
(* read_all: chunks after a fork                                           *)
(***************************************************************************)
\* the tokens of sequence q, as a set
TokensOf(q) == {q[k] : k \in 1..Len(q)}

\* no chunk that more than one chunk list has named gets a token
SharedChunksKept ==
    \A c \in ra.shared : ra'.outputs_chunks[c] = ra.outputs_chunks[c]

\* the result of a sequence holds tokens of the sequence and of its
\* ancestors from before the forks only
OwnTokensOnly ==
    ra.pc = "done" =>
        \A s \in DOMAIN ra.results : TokensOf(ra.results[s]) \subseteq TokensOf(ra.expected[s])

\* C29: in read_all no token is appended to a chunk once the chunk lists of
\* more than one sequence name it, the sequences that go on after a fork
\* each go on in a chunk of their own, and so no token a sequence produces
\* after a fork is in the result of another sequence.
Thm_C29 == [][SharedChunksKept]_vars /\ [](LastChunksDistinct /\ OwnTokensOnly)

\* read_all has returned a parent and the child forked from it after the
\* first iteration, both of which went on for an iteration after the fork
Witness_C29 ==
    /\ ra.pc = "done"
    /\ ra.iter = 3
    /\ \E s, t \in DOMAIN ra.results :
          /\ s # t
          /\ ra.intermediate_results[s][1] = ra.intermediate_results[t][1]
          /\ ra.intermediate_results[s][1] \in ra.shared
          /\ Len(ra.results[s]) = 3
          /\ Len(ra.results[t]) = 3
          /\ Len(ra.outputs_chunks[ra.intermediate_results[s][2]]) = 2
          /\ Len(ra.outputs_chunks[ra.intermediate_results[t][2]]) = 2

(***************************************************************************)
(* read_all: forks from the sequence with id 0                             *)
(***************************************************************************)
\* the sequences read_all returns that were forked from sequence p
ChildrenOf(p) == {s \in DOMAIN ra.results : ra.parent[s] = p}

\* C30: a sequence forked from the sequence with id 0 is returned with the
\* tokens of that parent from before the fork followed by its own, as a
\* sequence forked from any other parent is.
CE_C30 ==
    ra.pc = "done" =>
        \A s \in ChildrenOf(0) : ra.results[s] = ra.expected[s]

\* what read_all returns for a sequence forked from sequence 0 whose parent
\* was not itself forked: its own tokens only
ChildOfZeroOwnTokens ==
    ra.pc = "done" =>
        \A s \in ChildrenOf(0) :
            ra.parent[0] = -1 =>
                /\ ra.results[s] # ra.expected[s]
                /\ \A k \in 1..Len(ra.results[s]) :
                      \E iter \in 1..MaxIterations : ra.results[s][k] = IterToken(iter, s)

(***************************************************************************)
(* read_all: the sequences returned and their lengths                      *)
(***************************************************************************)
\* every sequence that first appeared after the first iteration named a
\* parent of the iteration before (no iteration read is empty)
EveryForkNamesParent == ~ra.orphan

\* the sequences returned are those of the last iteration read
ReturnsLastIteration ==
    ra.pc = "done" => DOMAIN ra.results = ra.last_iteration_results

\* C31: when every sequence that appears after the first iteration names a
\* parent of the iteration before, read_all returns sequences of the last
\* iteration read only, each with one token per iteration read.
CE_C31 ==
    (ra.pc = "done" /\ EveryForkNamesParent) =>
        /\ DOMAIN ra.results \subseteq ra.last_iteration_results
        /\ \A s \in DOMAIN ra.results : Len(ra.results[s]) = ra.iter

\* what holds of C31: the lengths are the number of iterations when no
\* sequence was forked from the sequence with id 0
OneTokenPerIterationUnlessParentZero ==
    (ra.pc = "done" /\ EveryForkNamesParent /\ ~ra.zero_parent) =>
        \A s \in DOMAIN ra.results : Len(ra.results[s]) = ra.iter

(***************************************************************************)
(* read_all: the cumulative log-probability returned                       *)
(***************************************************************************)
\* C32: the cumulative log-probability read_all returns for a sequence is
\* the one of the last output read for the sequence.
CE_C32 ==
    ra.pc = "done" =>
        \A s \in DOMAIN ra.results : ra.result_log_prob[s] = ra.last_log_prob[s]

\* what read_all returns: the value of the output in which the sequence
\* first appeared
ReturnsFirstLogProb ==
    ra.pc = "done" =>
        \A s \in DOMAIN ra.results : ra.result_log_prob[s] = ra.first_log_prob[s]

(***************************************************************************)
(* The accumulating read_all (add_partial_result)                          *)
(***************************************************************************)
AccIds == 0..(MaxAccSeqs - 1)

\* the x-th token of the output of sequence id in iteration iter
PushedToken(iter, id, x) == 100 * iter + 10 * id + x

\* lines 25-30, for an id found in partial_results: the first token of the
\* output is appended and the score is taken
add_partial_result_found(partial, iteration_result) ==
    [generated_token_ids |-> Append(partial.generated_token_ids,
                                    iteration_result.generated_token_ids[1]),
     score |-> iteration_result.score]

\* lines 22-32: add_partial_result over all the outputs of an iteration
add_partial_results(partial_results, iteration_results) ==
    [id \in DOMAIN partial_results \cup DOMAIN iteration_results |->
        IF id \notin DOMAIN iteration_results THEN partial_results[id]
        ELSE IF id \notin DOMAIN partial_results THEN iteration_results[id]
        ELSE add_partial_result_found(partial_results[id], iteration_results[id])]

\* lines 37-41: read() returns the outputs of the next iteration, one per
\* sequence in it, each with one token or more and a score
AccumulateIterate ==
    /\ accum.pc = "loop"
    /\ accum.iter < MaxAccIterations
    /\ \E ids \in SUBSET AccIds :
       \E len \in [ids -> 1..MaxTokensPerOutput], score \in [ids -> LogProbs] :
        LET iter == accum.iter + 1
            iteration_results ==
                [id \in ids |->
                    [generated_token_ids |-> [x \in 1..len[id] |-> PushedToken(iter, id, x)],
                     score |-> score[id]]]
        IN  accum' = [accum EXCEPT
                !.iter = iter,
                !.partial_results = add_partial_results(@, iteration_results),
                !.pushed = [id \in AccIds |->
                               IF id \in ids
                               THEN @[id] \o iteration_results[id].generated_token_ids
                               ELSE @[id]],
                !.last_score = [id \in AccIds |-> IF id \in ids THEN score[id] ELSE @[id]],
                !.seen = @ \cup ids,
                !.several = @ \cup {id \in ids \cap accum.seen : len[id] > 1}]
    /\ UNCHANGED <<ctorVars, runVars, streamVars, ra, fw, bm, eng, gres, pool>>

\* lines 43-46: the stream is finished and empty, the partial results are
\* returned
AccumulateReturn ==
    /\ accum.pc = "loop"
    /\ accum' = [accum EXCEPT !.pc = "done", !.results = accum.partial_results]
    /\ UNCHANGED <<ctorVars, runVars, streamVars, ra, fw, bm, eng, gres, pool>>

\* read_all at its loop, nothing read yet
InitAccumulate ==
    /\ Constructed
    /\ NoRun
    /\ max_new_tokens = 1
    /\ genIn = [n |-> 0, m |-> 0, streamer |-> FALSE, mode |-> "greedy",
                adapters_equal |-> TRUE, bad_shape |-> 0]
    /\ pc = [t \in Threads |-> "off"]
    /\ NoStream
    /\ NoReadAll
    /\ NoForward
    /\ NoBlocks
    /\ NoEngine
    /\ NoResults
    /\ NoPool
    /\ accum = [pc |-> "loop", iter |-> 0,
                partial_results |-> [id \in {} |-> <<>>],
                results |-> [id \in {} |-> <<>>],
                pushed |-> [id \in AccIds |-> <<>>],
                last_score |-> [id \in AccIds |-> 0],
                seen |-> {}, several |-> {}]

NextAccumulate == AccumulateIterate \/ AccumulateReturn

SpecAccumulate == InitAccumulate /\ [][NextAccumulate]_vars

\* C33: read_all returns, for every sequence id, all the tokens pushed for
\* the id in push order, whatever the number of tokens of an output, and the
\* score of the last iteration that contained the id.
CE_C33 ==
    accum.pc = "done" =>
        /\ DOMAIN accum.results = accum.seen
        /\ \A id \in accum.seen :
              /\ accum.results[id].generated_token_ids = accum.pushed[id]
              /\ accum.results[id].score = accum.last_score[id]

\* what holds of C33: the score is the last one, and the tokens are all
\* those pushed for the ids whose outputs after the first carried one token
AccumulatesOneTokenOutputs ==
    accum.pc = "done" =>
        /\ DOMAIN accum.results = accum.seen
        /\ \A id \in accum.seen :
              /\ accum.results[id].score = accum.last_score[id]
              /\ id \notin accum.several
                    => accum.results[id].generated_token_ids = accum.pushed[id]
              /\ id \in accum.several
                    => Len(accum.results[id].generated_token_ids) < Len(accum.pushed[id])

(***************************************************************************)
(* forward: the rows it writes                                             *)
(***************************************************************************)
\* the row of the j-th scheduled token of the k-th running sequence of the
\* i-th scheduled group, in the order groups, sequences, positions
RowOf(i, k, j) ==
    BatchSize(fw.groups, i - 1) + (k - 1) * fw.groups[i].num_scheduled_tokens + j + 1

\* C34: forward writes each of the batch_size rows of input_ids,
\* position_ids, slot_mapping and context_lens once and no row outside them,
\* batch_size being the sum over the groups of num_scheduled_tokens *
\* num_running_seqs; the rows are in the order group, running sequence,
\* position, the positions are num_processed_tokens ..
\* num_processed_tokens + num_scheduled_tokens - 1 and context_len is
\* position + 1.
Thm_C34 ==
    /\ \A x \in 1..Len(fw.stores) :
          \A tensor \in Tensors : fw.stores[x][tensor] = x /\ x <= fw.batch_size
    /\ fw.pc = "done" =>
          /\ Len(fw.stores) = fw.batch_size
          /\ \A tensor \in Tensors : Len(fw[tensor]) = fw.batch_size
          /\ \A i \in 1..Len(fw.groups) :
                \A k \in 1..Len(fw.groups[i].kv_blocks) :
                    \A j \in 0..(fw.groups[i].num_scheduled_tokens - 1) :
                        LET p == fw.groups[i].num_processed_tokens + j
                            row == RowOf(i, k, j)
                        IN  /\ row \in 1..fw.batch_size
                            /\ fw.stores[row].group = i
                            /\ fw.stores[row].seq_id = k
                            /\ fw.stores[row].position_id = p
                            /\ fw.position_ids[row] = p
                            /\ fw.context_lens[row] = p + 1
                            /\ fw.input_ids[row] # Unwritten
                            /\ fw.slot_mapping[row] # Unwritten

\* a pass over two groups has ended, the first with two running sequences
\* of two scheduled tokens each, the second starting at another position
Witness_C34 ==
    /\ fw.pc = "done"
    /\ Len(fw.groups) = 2
    /\ Len(fw.groups[1].kv_blocks) = 2
    /\ fw.groups[1].num_scheduled_tokens = 2
    /\ fw.groups[2].num_processed_tokens # fw.groups[1].num_processed_tokens
    /\ fw.batch_size >= 5
    /\ fw.position_ids[3] = fw.groups[1].num_processed_tokens

Positions(s) == 0..(bm.context_len[s] - 1)

\* the block the slot of position p is in, for a block table
BlockOf(block_table, p) == block_table[(p \div BLOCK_SIZE) + 1]

\* the blocks of a block table
BlocksIn(block_table) == {block_table[x] : x \in 1..Len(block_table)}

\* C36: every running sequence has a block table, and for every position p
\* that can be scheduled for it the table has more than p div BLOCK_SIZE
\* blocks, so that the slot computation of forward stays inside the table.
Thm_C36 ==
    \A s \in LiveSequences :
        /\ bm.block_tables[s] # <<>>
        /\ \A p \in Positions(s) : (p \div BLOCK_SIZE) + 1 \in DOMAIN bm.block_tables[s]

\* two running sequences fill their tables: the last position of each is
\* the last slot of its last block, and one of them got there by append_slot
Witness_C36 ==
    \E s, t \in LiveSequences :
        /\ s # t
        /\ bm.context_len[s] = MaxContext
        /\ Len(bm.block_tables[s]) = NumBlocksFor(MaxContext)
        /\ bm.context_len[t] = BLOCK_SIZE + 1
        /\ Len(bm.block_tables[t]) = 2
        /\ bm.block_tables[s] # bm.block_tables[t]

\* C37: two rows of a pass have the same slot id only if they are rows of
\* different sequences that share the block of the slot through a fork;
\* the rows of one sequence have different slot ids, and rows of sequences
\* whose tables share no block have different slot ids.
Thm_C37 ==
    \A s, t \in LiveSequences :
        \A p \in Positions(s), q \in Positions(t) :
            (SlotId(bm.block_tables[s], p) = SlotId(bm.block_tables[t], q)
                /\ <<s, p>> # <<t, q>>)
            => /\ s # t
               /\ BlockOf(bm.block_tables[s], p) = BlockOf(bm.block_tables[t], q)
               /\ bm.allocator.refcount[BlockOf(bm.block_tables[s], p)] > 1
               /\ BlocksIn(bm.block_tables[s]) \cap BlocksIn(bm.block_tables[t]) # {}

\* a parent and its fork share their first block and have gone on in blocks
\* of their own after a copy, beside a sequence that shares no block with them
Witness_C37 ==
    /\ bm.copied
    /\ \E s, t, u \in LiveSequences :
        /\ s # t
        /\ Len(bm.block_tables[s]) = 2
        /\ Len(bm.block_tables[t]) = 2
        /\ SlotId(bm.block_tables[s], 1) = SlotId(bm.block_tables[t], 1)
        /\ SlotId(bm.block_tables[s], BLOCK_SIZE) # SlotId(bm.block_tables[t], BLOCK_SIZE)
        /\ bm.context_len[s] > BLOCK_SIZE
        /\ bm.context_len[t] > BLOCK_SIZE
        /\ bm.context_len[u] > 0
        /\ BlocksIn(bm.block_tables[u]) \cap BlocksIn(bm.block_tables[s]) = {}
        /\ BlocksIn(bm.block_tables[u]) \cap BlocksIn(bm.block_tables[t]) = {}

(***************************************************************************)
(* InferenceRunner: the pool of infer requests of the tokenizer            *)
(***************************************************************************)
PoolIndexes == 0..(PoolSize - 1)

Callers == 1..NumCallers

\* lines 23-26: for (i < 128) m_free_ir_indexes.push(i)
NewPool == [x \in 1..PoolSize |-> x - 1]

\* lines 36-40 and 64-68: under m_mutex, free_ir_index = front(); pop().
\* On an empty queue front() and pop() are undefined: the call may fault, or
\* go on with any index
PoolTake(c) ==
    /\ pool.pc = "on"
    /\ pool.caller[c].pc = "idle"
    /\ IF pool.m_free_ir_indexes # <<>>
       THEN pool' = [pool EXCEPT
                        !.m_free_ir_indexes = Tail(@),
                        !.caller[c] = [pc |-> "infer",
                                       free_ir_index |-> Head(pool.m_free_ir_indexes)]]
       ELSE \/ pool' = [pool EXCEPT !.caller[c].pc = "fault", !.front_on_empty = TRUE]
            \/ \E garbage \in PoolIndexes :
                  pool' = [pool EXCEPT
                              !.caller[c] = [pc |-> "infer", free_ir_index |-> garbage],
                              !.front_on_empty = TRUE]
    /\ UNCHANGED <<ctorVars, runVars, streamVars, ra, fw, bm, eng, gres, accum>>

\* lines 41-47 and 69-75: the infer request is used, then under m_mutex
\* m_free_ir_indexes.push(free_ir_index), and run returns
PoolReturn(c) ==
    /\ pool.pc = "on"
    /\ pool.caller[c].pc = "infer"
    /\ pool' = [pool EXCEPT
                    !.m_free_ir_indexes = Append(@, pool.caller[c].free_ir_index),
                    !.caller[c] = [pc |-> "idle", free_ir_index |-> -1],
                    !.returned = TRUE]
    /\ UNCHANGED <<ctorVars, runVars, streamVars, ra, fw, bm, eng, gres, accum>>

\* a runner as constructed, and threads that call run any number of times
InitPool ==
    /\ Constructed
    /\ NoRun
    /\ max_new_tokens = 1
    /\ genIn = [n |-> 0, m |-> 0, streamer |-> FALSE, mode |-> "greedy",
                adapters_equal |-> TRUE, bad_shape |-> 0]
    /\ pc = [t \in Threads |-> "off"]
    /\ NoStream
    /\ NoReadAll
    /\ NoForward
    /\ NoBlocks
    /\ NoEngine
    /\ NoResults
    /\ NoAccumulate
    /\ pool = [pc |-> "on", m_free_ir_indexes |-> NewPool,
               caller |-> [c \in Callers |-> [pc |-> "idle", free_ir_index |-> -1]],
               front_on_empty |-> FALSE, returned |-> FALSE]

NextPool ==
    \/ \E c \in Callers : PoolTake(c)
    \/ \E c \in Callers : PoolReturn(c)

SpecPool == InitPool /\ [][NextPool]_vars

\* the callers inside run, between taking an index and returning it
InRun == {c \in Callers : pool.caller[c].pc = "infer"}

\* the indexes in use
InUse == {pool.caller[c].free_ir_index : c \in InRun}

\* the indexes in the queue
Queued == {pool.m_free_ir_indexes[x] : x \in 1..Len(pool.m_free_ir_indexes)}

\* no index is used twice, the queue holds none twice and none that is in
\* use, and every index of the pool is in the queue or in use
PoolPartitioned ==
    /\ \A c, d \in InRun : c # d => pool.caller[c].free_ir_index # pool.caller[d].free_ir_index
    /\ Cardinality(Queued) = Len(pool.m_free_ir_indexes)
    /\ Queued \cap InUse = {}
    /\ Queued \cup InUse = PoolIndexes

\* C38: for any number of concurrent run() calls no infer-request index is
\* used by two calls at a time, and the queue of free indexes and the
\* indexes in use are disjoint, without duplicates, and together the
\* indexes of the pool.
CE_C38 == PoolPartitioned

\* what holds of C38: the pool is partitioned as long as no call has found
\* the queue empty
PartitionedUntilEmpty == ~pool.front_on_empty => PoolPartitioned

\* C39: run takes an index only when the queue is not empty, for any number
\* of concurrent callers: front() and pop() are never executed on an empty
\* queue.
CE_C39 == ~pool.front_on_empty

\* what holds of C39: the queue is empty at a call only when as many calls
\* as the pool has infer requests are inside run
EmptyOnlyWhenAllInUse ==
    (~pool.front_on_empty /\ pool.m_free_ir_indexes = <<>>) => Cardinality(InRun) = PoolSize

====
